---- MODULE Spec2Model ----
(***************************************************************************)
(* A model of the network-diagnostics analysers: the log readers and the   *)
(* throughput/AP correlator of backhaul_inference.py, the readers of       *)
(* analyze.py and the coverage scorer of coverage_gaps.py.                 *)
(***************************************************************************)
EXTENDS Integers, Sequences, FiniteSets, TLC

VARIABLES
    pc,             \* position of the running command
    err,            \* the exception that ended the command, "none" while it runs
    iperf_files,    \* LOG_DIR/<host>/iperf.jsonl: the lines of each host's file
    wifi_files,     \* LOG_DIR/<host>/wifi_probe.csv: the rows of each host's file
    rows,           \* the list a reader returned
    iperf_logs,     \* main: read_iperf_logs()
    wifi_logs,      \* main: read_wifi_logs()
    iperf_pos,      \* correlate_throughput_with_ap: index of the iperf record in turn
    ap_throughput,  \* correlate_throughput_with_ap: the measurements, in append order
    signals,        \* calculate_coverage_score: its argument
    coverage,       \* calculate_coverage_score: the dict it returned
    probe_files,    \* LOG_DIR/<host>/: net_probe.csv, wan_probe.csv, ap_scan.csv,
                    \* wifi_events.jsonl
    report,         \* what a command of analyze.py or an aggregator produced
    heap            \* the dicts and lists of a run in the order they were made,
                    \* where a run is followed object by object

vars == <<pc, err, iperf_files, wifi_files, rows, iperf_logs, wifi_logs,
          iperf_pos, ap_throughput, signals, coverage, probe_files, report,
          heap>>

\* the variables of the log commands, while the scorer runs alone
LogsIdle ==
    /\ iperf_files = <<>>
    /\ wifi_files = <<>>
    /\ rows = <<>>
    /\ iperf_logs = <<>>
    /\ wifi_logs = <<>>
    /\ iperf_pos = 0
    /\ ap_throughput = <<>>

\* the variables of the scorer, while a log command runs
ScorerIdle ==
    /\ signals = <<>>
    /\ coverage = [rating |-> "unset"]

\* the variables of the other commands, while they do not run
ReportsIdle ==
    /\ probe_files = <<>>
    /\ report = <<>>
    /\ heap = <<>>

(***************************************************************************)
(* Python floats.  A float of magnitude below 2^12 whose ulp is at least   *)
(* 2^-60 is held as the integer x * 2^60, written in four limbs of 20 bits *)
(* (least significant first), with its sign apart.  Every operation is the *)
(* exact one followed by IEEE-754 round-to-nearest, ties-to-even, to 53    *)
(* significant bits, which is what CPython's float arithmetic does.        *)
(***************************************************************************)
LimbBase == 2^20

RECURSIVE BitLen(_)
BitLen(n) == IF n = 0 THEN 0 ELSE 1 + BitLen(n \div 2)

BigZero == <<0, 0, 0, 0>>

BigOfInt(n) == <<0, 0, 0, n>>

Carry(x) ==
    LET a1 == x[1]
        a2 == x[2] + (a1 \div LimbBase)
        a3 == x[3] + (a2 \div LimbBase)
        a4 == x[4] + (a3 \div LimbBase)
    IN  <<a1 % LimbBase, a2 % LimbBase, a3 % LimbBase, a4>>

BigAdd(x, y) == Carry(<<x[1] + y[1], x[2] + y[2], x[3] + y[3], x[4] + y[4]>>)

BigMulSmall(x, c) == Carry(<<x[1] * c, x[2] * c, x[3] * c, x[4] * c>>)

BigLess(x, y) ==
    \/ x[4] < y[4]
    \/ x[4] = y[4] /\ x[3] < y[3]
    \/ x[4] = y[4] /\ x[3] = y[3] /\ x[2] < y[2]
    \/ x[4] = y[4] /\ x[3] = y[3] /\ x[2] = y[2] /\ x[1] < y[1]

\* x - y for x >= y
BigSub(x, y) ==
    LET d1 == x[1] - y[1]
        b1 == IF d1 < 0 THEN 1 ELSE 0
        d2 == x[2] - y[2] - b1
        b2 == IF d2 < 0 THEN 1 ELSE 0
        d3 == x[3] - y[3] - b2
        b3 == IF d3 < 0 THEN 1 ELSE 0
    IN  <<d1 + b1 * LimbBase, d2 + b2 * LimbBase, d3 + b3 * LimbBase,
          x[4] - y[4] - b3>>

BigBitLen(x) ==
    IF x[4] > 0 THEN 60 + BitLen(x[4])
    ELSE IF x[3] > 0 THEN 40 + BitLen(x[3])
    ELSE IF x[2] > 0 THEN 20 + BitLen(x[2])
    ELSE BitLen(x[1])

\* The nearest double to the exact value x (+ a non-zero amount below one
\* unit when sticky): round to 53 significant bits, ties to even.
RoundToDouble(x, sticky) ==
    LET L == BigBitLen(x) IN
    IF L <= 53 THEN x
    ELSE LET P    == 2^(L - 53)
             v    == x[1] % P
             half == P \div 2
             odd  == (x[1] \div P) % 2 = 1
             up   == v > half \/ (v = half /\ (sticky \/ odd))
         IN  Carry(<<(x[1] - v) + (IF up THEN P ELSE 0), x[2], x[3], x[4]>>)

\* int / int (true division), a >= 0, b > 0
FDivMag(a, b) ==
    LET d4 == a \div b
        r4 == a % b
        d3 == (r4 * LimbBase) \div b
        r3 == (r4 * LimbBase) % b
        d2 == (r3 * LimbBase) \div b
        r2 == (r3 * LimbBase) % b
        d1 == (r2 * LimbBase) \div b
        r1 == (r2 * LimbBase) % b
    IN  RoundToDouble(<<d1, d2, d3, d4>>, r1 # 0)

Abs(n) == IF n < 0 THEN -n ELSE n

FloatOfInt(n) == [neg |-> n < 0, mag |-> BigOfInt(Abs(n))]

\* a / b for ints a and b > 0
FDiv(a, b) == [neg |-> a < 0, mag |-> FDivMag(Abs(a), b)]

\* x * c for a float x and an int c >= 0
FMul(x, c) ==
    LET m == RoundToDouble(BigMulSmall(x.mag, c), FALSE)
    IN  [neg |-> x.neg /\ m # BigZero, mag |-> m]

\* x + y for floats x, y >= 0
FAdd(x, y) == [neg |-> FALSE, mag |-> RoundToDouble(BigAdd(x.mag, y.mag), FALSE)]

\* x - y for floats x, y >= 0
FSub(x, y) ==
    IF BigLess(x.mag, y.mag)
    THEN [neg |-> TRUE, mag |-> RoundToDouble(BigSub(y.mag, x.mag), FALSE)]
    ELSE [neg |-> FALSE, mag |-> RoundToDouble(BigSub(x.mag, y.mag), FALSE)]

\* x > 0
FPositive(x) == ~x.neg /\ x.mag # BigZero

\* x >= n for an int n > 0
FGeqInt(x, n) == ~x.neg /\ x.mag[4] >= n

\* round(x, 1) in tenths: the decimal nearest to the float's exact value,
\* ties to even (float.__round__ rounds the exact binary value).
Round1(x) ==
    LET y    == BigMulSmall(x.mag, 10)
        half == LimbBase \div 2
        tie  == y[3] = half /\ y[2] = 0 /\ y[1] = 0
        up   == (y[3] >= half /\ ~tie) \/ (tie /\ y[4] % 2 = 1)
        t    == y[4] + (IF up THEN 1 ELSE 0)
    IN  IF x.neg THEN -t ELSE t

(***************************************************************************)
(* coverage_gaps.py: the coverage scorer.  A score or an average is held   *)
(* in tenths (340 is 34.0), the value round(x, 1) returns.                 *)
(***************************************************************************)
EXCELLENT_SIGNAL == -50
GOOD_SIGNAL == -60
FAIR_SIGNAL == -70
WEAK_SIGNAL == -75
DEAD_ZONE_THRESHOLD == -80

is_excellent(s) == s >= EXCELLENT_SIGNAL

is_good(s) == GOOD_SIGNAL <= s /\ s < EXCELLENT_SIGNAL

is_fair(s) == FAIR_SIGNAL <= s /\ s < GOOD_SIGNAL

is_weak(s) == WEAK_SIGNAL <= s /\ s < FAIR_SIGNAL

\* the dead band cut at the dead-zone threshold instead of the weak one
is_dead_at_dead_zone(s) == s < DEAD_ZONE_THRESHOLD

is_dead(s) == s < WEAK_SIGNAL

RECURSIVE SumSeq(_)
SumSeq(sigs) == IF sigs = <<>> THEN 0 ELSE Head(sigs) + SumSeq(Tail(sigs))

\* min(signals)
MinSeq(sigs) == CHOOSE m \in {sigs[i] : i \in DOMAIN sigs} :
                    \A i \in DOMAIN sigs : m <= sigs[i]

\* statistics.mean of ints: the exact quotient, converted to a float
mean(sigs) == FDiv(SumSeq(sigs), Len(sigs))

\* the weighted sum, left to right
weighted_score(excellent, good, fair, weak, dead, total) ==
    FAdd(FAdd(FAdd(FAdd(FMul(FDiv(excellent, total), 100),
                        FMul(FDiv(good, total), 80)),
                   FMul(FDiv(fair, total), 60)),
              FMul(FDiv(weak, total), 30)),
         FMul(FDiv(dead, total), 0))

\* no second penalty: dead samples only weigh 0
dead_zone_penalty_skipped(score, dead, total) == score

\* the direct penalty for dead-zone samples
dead_zone_penalty(score, dead, total) ==
    LET dead_zone_pct == FMul(FDiv(dead, total), 100)
    IN  IF FPositive(dead_zone_pct) THEN FSub(score, dead_zone_pct) ELSE score

\* max(0, min(100, score))
clamp_score(score) ==
    LET m == IF FGeqInt(score, 100) THEN FloatOfInt(100) ELSE score
    IN  IF FPositive(m) THEN m ELSE FloatOfInt(0)

rating_of(score) ==
    IF FGeqInt(score, 90) THEN "Excellent"
    ELSE IF FGeqInt(score, 75) THEN "Good"
    ELSE IF FGeqInt(score, 50) THEN "Fair"
    ELSE IF FGeqInt(score, 25) THEN "Poor"
    ELSE "Critical"

no_data == [score |-> 0, rating |-> "No Data", breakdown |-> <<>>]

score_signals(sigs) ==
    LET excellent == Cardinality({i \in DOMAIN sigs : is_excellent(sigs[i])})
        good      == Cardinality({i \in DOMAIN sigs : is_good(sigs[i])})
        fair      == Cardinality({i \in DOMAIN sigs : is_fair(sigs[i])})
        weak      == Cardinality({i \in DOMAIN sigs : is_weak(sigs[i])})
        dead      == Cardinality({i \in DOMAIN sigs : is_dead(sigs[i])})
        total     == Len(sigs)
        score     == clamp_score(dead_zone_penalty(
                         weighted_score(excellent, good, fair, weak, dead, total),
                         dead, total))
    IN  [score      |-> Round1(score),
         rating     |-> rating_of(score),
         avg_signal |-> Round1(mean(sigs)),
         min_signal |-> MinSeq(sigs),
         breakdown  |-> [excellent |-> excellent, good |-> good, fair |-> fair,
                         weak |-> weak, dead_zone |-> dead]]

\* an empty list scored as a total of zero instead of the sentinel
calculate_coverage_score_no_sentinel(sigs) ==
    IF sigs = <<>>
    THEN [score |-> 0, rating |-> "Critical", breakdown |-> <<>>]
    ELSE score_signals(sigs)

calculate_coverage_score(sigs) ==
    IF sigs = <<>> THEN no_data ELSE score_signals(sigs)

(***************************************************************************)
(* The scorer applied to every list of up to MaxSignals signals drawn from *)
(* the band edges, and to the documented five-band example.                *)
(***************************************************************************)
MaxSignals == 6

SignalVals == {-50, -60, -70, -75, -76}

ScorerExample == <<-45, -55, -65, -73, -85>>

SeqsUpTo(S, n) == UNION {[1..k -> S] : k \in 0..n}

InitScore ==
    /\ pc = "start"
    /\ err = "none"
    /\ signals \in SeqsUpTo(SignalVals, MaxSignals) \cup {ScorerExample}
    /\ coverage = [rating |-> "unset"]
    /\ LogsIdle
    /\ ReportsIdle

Score ==
    /\ pc = "start"
    /\ coverage' = calculate_coverage_score(signals)
    /\ pc' = "done"
    /\ UNCHANGED <<heap, probe_files, report, err, signals, iperf_files, wifi_files, rows, iperf_logs,
                   wifi_logs, iperf_pos, ap_throughput>>

NextScore == Score

SpecScore == InitScore /\ [][NextScore]_vars

(***************************************************************************)
(* Records of the log files.  A ts value is held by what the code does     *)
(* with it: whether the key is there, whether it is text, whether          *)
(* datetime.fromisoformat accepts it, whether it carries a zone, and its   *)
(* instant in seconds.  Well-formed timestamps are fixed-width ISO-8601    *)
(* text ("2025-01-01T00:01:40", with or without a trailing Z).             *)
(***************************************************************************)
NoTs == [kind |-> "absent", t |-> 0]        \* the record has no ts key
NullTs == [kind |-> "null", t |-> 0]        \* None: JSON null, a short CSV row
BadTs == [kind |-> "bad", t |-> 0]          \* text that is no timestamp, as "N/A"
Naive(t) == [kind |-> "naive", t |-> t]     \* a timestamp without zone
Utc(t) == [kind |-> "utc", t |-> t]         \* a timestamp with a trailing Z

\* r.get("ts", "") as a sort key: "" < a timestamp < "N/A"; two timestamps
\* compare as their text does, a zone-less one before itself with a Z.
ts_key_class(ts) ==
    IF ts.kind = "absent" THEN 0 ELSE IF ts.kind = "bad" THEN 2 ELSE 1

ts_key_less(a, b) ==
    \/ ts_key_class(a) < ts_key_class(b)
    \/ /\ ts_key_class(a) = 1 /\ ts_key_class(b) = 1
       /\ \/ a.t < b.t
          \/ a.t = b.t /\ a.kind = "naive" /\ b.kind = "utc"

\* list.sort is stable: a record goes after the records that are not greater
insert_by_ts(sorted, r) ==
    LET p == Cardinality({j \in DOMAIN sorted : ~ts_key_less(r.ts, sorted[j].ts)})
    IN  SubSeq(sorted, 1, p) \o <<r>> \o SubSeq(sorted, p + 1, Len(sorted))

RECURSIVE sort_from(_, _)
sort_from(sorted, rest) ==
    IF rest = <<>> THEN sorted
    ELSE sort_from(insert_by_ts(sorted, Head(rest)), Tail(rest))

\* the list left as it was read
sort_by_ts_skipped(rs) == rs

\* rows.sort(key=lambda r: r.get("ts", ""))
sort_by_ts(rs) == sort_from(<<>>, rs)

\* comparing None with a key raises TypeError; a list of one is not compared
sort_rows(rs) ==
    IF Len(rs) >= 2 /\ \E j \in DOMAIN rs : rs[j].ts.kind = "null"
    THEN [raised |-> "TypeError", rows |-> <<>>]
    ELSE [raised |-> "none", rows |-> sort_by_ts(rs)]

(***************************************************************************)
(* The log directory: one sub-directory per host.  find_all_hosts returns  *)
(* the hosts in the order Path.iterdir yields them, which is arbitrary.    *)
(***************************************************************************)
Hosts == {"pi1", "pi2"}

find_all_hosts ==
    {hs \in [1..Cardinality(Hosts) -> Hosts] :
        \A j, k \in DOMAIN hs : j # k => hs[j] # hs[k]}

\* the lines of a host's file; none when the file does not exist
file_lines(files, h) == IF h \in DOMAIN files THEN files[h] ELSE <<>>

\* obj["_host"] = h
tag_line(line, h) ==
    [_host |-> h, ts |-> line.ts, ok |-> line.ok, mode |-> line.mode,
     has_iperf |-> line.has_iperf, recv_bps |-> line.recv_bps,
     sent_bps |-> line.sent_bps]

\* one file of JSON lines: json.loads raises JSONDecodeError on a line that is
\* no JSON (skipped); a JSON value that is no object has no item assignment
RECURSIVE load_json_lines(_, _)
load_json_lines(h, lines) ==
    IF lines = <<>> THEN [raised |-> "none", rows |-> <<>>]
    ELSE IF Head(lines).kind = "invalid" THEN load_json_lines(h, Tail(lines))
    ELSE IF Head(lines).kind = "scalar" THEN [raised |-> "TypeError", rows |-> <<>>]
    ELSE LET rest == load_json_lines(h, Tail(lines))
         IN  [raised |-> rest.raised,
              rows |-> IF rest.raised = "none"
                       THEN <<tag_line(Head(lines), h)>> \o rest.rows ELSE <<>>]

RECURSIVE load_json_hosts(_, _)
load_json_hosts(hs, files) ==
    IF hs = <<>> THEN [raised |-> "none", rows |-> <<>>]
    ELSE LET first == load_json_lines(Head(hs), file_lines(files, Head(hs)))
             rest  == load_json_hosts(Tail(hs), files)
         IN  IF first.raised # "none" THEN first
             ELSE IF rest.raised # "none" THEN rest
             ELSE [raised |-> "none", rows |-> first.rows \o rest.rows]

\* analyze.py
read_jsonl_logs(hs, files) ==
    LET loaded == load_json_hosts(hs, files)
    IN  IF loaded.raised # "none" THEN loaded ELSE sort_rows(loaded.rows)

\* bits_per_second / 1_000_000 of the direction measured, 0 for a failed run;
\* the rates of the model are whole Mbit/s, for which the quotient is exact
throughput_of(obj) ==
    IF obj.ok /\ obj.has_iperf
    THEN (IF obj.mode = "download" THEN obj.recv_bps ELSE obj.sent_bps) \div 1000000
    ELSE 0

with_throughput(obj) ==
    [_host |-> obj._host, ts |-> obj.ts, ok |-> obj.ok, mode |-> obj.mode,
     has_iperf |-> obj.has_iperf, recv_bps |-> obj.recv_bps,
     sent_bps |-> obj.sent_bps, throughput_mbps |-> throughput_of(obj)]

\* backhaul_inference.py
read_iperf_logs(hs, files) ==
    LET loaded == load_json_hosts(hs, files)
    IN  IF loaded.raised # "none" THEN loaded
        ELSE sort_rows([j \in DOMAIN loaded.rows |-> with_throughput(loaded.rows[j])])

\* row["_host"] = h
tag_row(row, h) ==
    [_host |-> h, ts |-> row.ts, ap_name |-> row.ap_name, bssid |-> row.bssid,
     signal_dbm |-> row.signal_dbm]

RECURSIVE load_csv_hosts(_, _)
load_csv_hosts(hs, files) ==
    IF hs = <<>> THEN <<>>
    ELSE LET lines == file_lines(files, Head(hs))
         IN  [j \in DOMAIN lines |-> tag_row(lines[j], Head(hs))]
                 \o load_csv_hosts(Tail(hs), files)

\* analyze.py
read_csv_logs(hs, files) == sort_rows(load_csv_hosts(hs, files))

\* backhaul_inference.py
read_wifi_logs(hs, files) == sort_rows(load_csv_hosts(hs, files))

(***************************************************************************)
(* backhaul_inference.py: correlate_throughput_with_ap.  The dict of lists *)
(* it builds is held as the list of its measurements in append order, each *)
(* with the key (ap) it was appended under.                                *)
(***************************************************************************)
\* every wifi record, whatever its host
wifi_by_host_unfiltered(wifi, h) == wifi

\* wifi_by_host[h]: the wifi records of host h, in the order of wifi_logs
wifi_by_host(wifi, h) == SelectSeq(wifi, LAMBDA w : w._host = h)

\* datetime.fromisoformat(ts.replace("Z", "+00:00"))
fromisoformat(ts) ==
    IF ts.kind = "null" THEN [exc |-> "AttributeError", aware |-> FALSE, t |-> 0]
    ELSE IF ts.kind = "bad" THEN [exc |-> "ValueError", aware |-> FALSE, t |-> 0]
    ELSE [exc |-> "none", aware |-> ts.kind = "utc", t |-> ts.t]

\* the body of the try block for one wifi record: the exception it raises, or
\* the distance in seconds
time_diff(ts, w) ==
    LET iperf_dt == fromisoformat(ts)
        wifi_dt  == fromisoformat(w.ts)
    IN  IF iperf_dt.exc # "none" THEN [exc |-> iperf_dt.exc, diff |-> 0]
        ELSE IF w.ts.kind = "absent" THEN [exc |-> "KeyError", diff |-> 0]
        ELSE IF wifi_dt.exc # "none" THEN [exc |-> wifi_dt.exc, diff |-> 0]
        ELSE IF iperf_dt.aware # wifi_dt.aware THEN [exc |-> "TypeError", diff |-> 0]
        ELSE [exc |-> "none", diff |-> Abs(iperf_dt.t - wifi_dt.t)]

\* except (ValueError, KeyError): continue
is_caught(exc) == exc \in {"ValueError", "KeyError"}

\* a later record at the same distance replaces the one held
is_closer_or_equal(diff, best) == best.closest = <<>> \/ diff <= best.min_diff

\* diff < min_diff, min_diff being infinite while no record is held
is_closer(diff, best) == best.closest = <<>> \/ diff < best.min_diff

\* for w in host_wifi: ...; closest is <<>> for None
RECURSIVE find_closest(_, _, _)
find_closest(ts, host_wifi, best) ==
    IF host_wifi = <<>> THEN best
    ELSE LET w == Head(host_wifi)
             d == time_diff(ts, w)
         IN  IF d.exc # "none" /\ ~is_caught(d.exc)
             THEN [exc |-> d.exc, closest |-> <<>>, min_diff |-> 0]
             ELSE IF d.exc = "none" /\ is_closer(d.diff, best)
             THEN find_closest(ts, Tail(host_wifi),
                               [exc |-> "none", closest |-> <<w>>, min_diff |-> d.diff])
             ELSE find_closest(ts, Tail(host_wifi), best)

\* min_diff < 300
within_max_gap(min_diff) == min_diff < 300

\* closest_wifi.get("ap_name") or closest_wifi.get("bssid") or "unknown"
ap_name_of(w) ==
    IF w.ap_name # "" THEN w.ap_name ELSE IF w.bssid # "" THEN w.bssid ELSE "unknown"

NoSignal == [k |-> "none", v |-> 0]

\* int(signal) if signal else None
signal_of(w) ==
    IF w.signal_dbm.k = "int" THEN [exc |-> "none", value |-> w.signal_dbm]
    ELSE IF w.signal_dbm.k = "text" THEN [exc |-> "ValueError", value |-> NoSignal]
    ELSE [exc |-> "none", value |-> NoSignal]

\* the body of the loop for one iperf record: the exception it raises, or the
\* measurements it appends (none or one)
correlate_one(iperf, wifi) ==
    IF ~iperf.ok \/ iperf.throughput_mbps = 0 THEN [exc |-> "none", add |-> <<>>]
    ELSE IF iperf.ts.kind = "absent" THEN [exc |-> "KeyError", add |-> <<>>]
    ELSE LET found == find_closest(iperf.ts, wifi_by_host(wifi, iperf._host),
                                   [exc |-> "none", closest |-> <<>>, min_diff |-> 0])
         IN  IF found.exc # "none" THEN [exc |-> found.exc, add |-> <<>>]
             ELSE IF found.closest = <<>> \/ ~within_max_gap(found.min_diff)
             THEN [exc |-> "none", add |-> <<>>]
             ELSE LET w == found.closest[1]
                      signal == signal_of(w)
                  IN  IF signal.exc # "none" THEN [exc |-> signal.exc, add |-> <<>>]
                      ELSE [exc |-> "none",
                            add |-> <<[ap |-> ap_name_of(w),
                                       throughput_mbps |-> iperf.throughput_mbps,
                                       mode |-> iperf.mode,
                                       host |-> iperf._host,
                                       ts |-> iperf.ts,
                                       signal_dbm |-> signal.value]>>]

(***************************************************************************)
(* The log directories the commands are run on.                            *)
(***************************************************************************)
MaxIperf == 2       \* lines of an iperf.jsonl
MaxWifi == 2        \* rows of a wifi_probe.csv

SigInt(n) == [k |-> "int", v |-> n]
SigEmpty == [k |-> "empty", v |-> 0]

GoodLine(ts, mode) ==
    [kind |-> "object", ts |-> ts, ok |-> TRUE, mode |-> mode, has_iperf |-> TRUE,
     recv_bps |-> 50000000, sent_bps |-> 20000000]

\* a run that failed: {"ok": false, ...}
FailedLine(ts) ==
    [kind |-> "object", ts |-> ts, ok |-> FALSE, mode |-> "download",
     has_iperf |-> FALSE, recv_bps |-> 0, sent_bps |-> 0]

\* a torn or empty line, or other text that is no JSON
InvalidLine ==
    [kind |-> "invalid", ts |-> NoTs, ok |-> FALSE, mode |-> "", has_iperf |-> FALSE,
     recv_bps |-> 0, sent_bps |-> 0]

\* a line that is JSON but no object: 42, "x", [], null
ScalarLine ==
    [kind |-> "scalar", ts |-> NoTs, ok |-> FALSE, mode |-> "", has_iperf |-> FALSE,
     recv_bps |-> 0, sent_bps |-> 0]

NamedAp == [ap_name |-> "AP-Office", bssid |-> "aa:01", signal_dbm |-> SigInt(-60)]
UnnamedAp == [ap_name |-> "", bssid |-> "aa:02", signal_dbm |-> SigEmpty]
UnknownAp == [ap_name |-> "", bssid |-> "", signal_dbm |-> SigInt(-72)]

WifiRow(ts, ap) ==
    [ts |-> ts, ap_name |-> ap.ap_name, bssid |-> ap.bssid,
     signal_dbm |-> ap.signal_dbm]

SeqsFromTo(S, lo, hi) == UNION {[1..k -> S] : k \in lo..hi}

\* instants in seconds: 0, 5, 20, 300 and more than 300 apart
WifiTimes == {80, 95, 100, 105, 400, 700}
IperfTimes == {100, 400}

TimingRows == {WifiRow(Naive(t), ap) : t \in WifiTimes, ap \in {NamedAp, UnnamedAp}}

\* one measurement of pi1 among wifi samples of both hosts at varied distances
InitTiming ==
    /\ \E t \in IperfTimes :
           iperf_files = [h \in Hosts |->
               IF h = "pi1" THEN <<GoodLine(Naive(t), "download")>> ELSE <<>>]
    /\ \E own \in SeqsUpTo(TimingRows, MaxWifi), other \in SeqsUpTo(TimingRows, 1) :
           wifi_files = [h \in Hosts |-> IF h = "pi1" THEN own ELSE other]

IperfTsKinds == {Naive(100), Utc(100), BadTs, NullTs, NoTs}
WifiTsKinds == {Naive(100), Utc(100), BadTs, NullTs}

\* measurements and wifi samples of pi1 with every kind of ts
InitBadTs ==
    /\ \E ls \in SeqsFromTo({GoodLine(ts, "download") : ts \in IperfTsKinds}, 1, MaxIperf) :
           iperf_files = [h \in Hosts |-> IF h = "pi1" THEN ls ELSE <<>>]
    /\ \E ws \in SeqsUpTo({WifiRow(ts, UnknownAp) : ts \in WifiTsKinds}, MaxWifi) :
           wifi_files = [h \in Hosts |-> IF h = "pi1" THEN ws ELSE <<>>]

JsonLines ==
    {InvalidLine, ScalarLine, GoodLine(Naive(100), "download"),
     GoodLine(Naive(100), "upload"), FailedLine(Naive(80))}

\* iperf files of both hosts with good, failed and malformed lines
InitLines ==
    /\ iperf_files \in [Hosts -> SeqsUpTo(JsonLines, MaxIperf)]
    /\ wifi_files = [h \in Hosts |->
           IF h = "pi1" THEN <<WifiRow(Naive(95), NamedAp)>> ELSE <<>>]

InitLogDir == InitTiming \/ InitBadTs \/ InitLines

(***************************************************************************)
(* backhaul_inference.py: main, up to the correlation.  pc is the step     *)
(* last entered; err is the exception that ended the command there.        *)
(***************************************************************************)
InitBackhaul ==
    /\ pc = "start"
    /\ err = "none"
    /\ InitLogDir
    /\ rows = <<>>
    /\ iperf_logs = <<>>
    /\ wifi_logs = <<>>
    /\ iperf_pos = 0
    /\ ap_throughput = <<>>
    /\ ScorerIdle
    /\ ReportsIdle

\* iperf_logs = read_iperf_logs()
LoadIperfLogs ==
    /\ pc = "start" /\ err = "none"
    /\ \E hs \in find_all_hosts :
           LET r == read_iperf_logs(hs, iperf_files)
           IN  iperf_logs' = r.rows /\ err' = r.raised
    /\ pc' = "read_iperf"
    /\ UNCHANGED <<heap, probe_files, report, iperf_files, wifi_files, rows, wifi_logs, iperf_pos,
                   ap_throughput, signals, coverage>>

\* wifi_logs = read_wifi_logs()
LoadWifiLogs ==
    /\ pc = "read_iperf" /\ err = "none"
    /\ \E hs \in find_all_hosts :
           LET r == read_wifi_logs(hs, wifi_files)
           IN  wifi_logs' = r.rows /\ err' = r.raised
    /\ pc' = "read_wifi"
    /\ UNCHANGED <<heap, probe_files, report, iperf_files, wifi_files, rows, iperf_logs, iperf_pos,
                   ap_throughput, signals, coverage>>

\* if not iperf_logs: sys.exit(1)
NoIperfLogs ==
    /\ pc = "read_wifi" /\ err = "none"
    /\ iperf_logs = <<>>
    /\ pc' = "exit_1"
    /\ UNCHANGED <<heap, probe_files, report, err, iperf_files, wifi_files, rows, iperf_logs, wifi_logs,
                   iperf_pos, ap_throughput, signals, coverage>>

\* the call of correlate_throughput_with_ap(iperf_logs, wifi_logs)
StartCorrelate ==
    /\ pc = "read_wifi" /\ err = "none"
    /\ iperf_logs # <<>>
    /\ pc' = "correlate"
    /\ iperf_pos' = 1
    /\ ap_throughput' = <<>>
    /\ UNCHANGED <<heap, probe_files, report, err, iperf_files, wifi_files, rows, iperf_logs, wifi_logs,
                   signals, coverage>>

\* one turn of: for iperf in iperf_logs
CorrelateStep ==
    /\ pc = "correlate" /\ err = "none"
    /\ iperf_pos <= Len(iperf_logs)
    /\ LET r == correlate_one(iperf_logs[iperf_pos], wifi_logs)
       IN  /\ err' = r.exc
           /\ ap_throughput' = ap_throughput \o r.add
           /\ iperf_pos' = IF r.exc = "none" THEN iperf_pos + 1 ELSE iperf_pos
    /\ UNCHANGED <<heap, probe_files, report, pc, iperf_files, wifi_files, rows, iperf_logs, wifi_logs,
                   signals, coverage>>

\* return ap_throughput
ReturnCorrelation ==
    /\ pc = "correlate" /\ err = "none"
    /\ iperf_pos > Len(iperf_logs)
    /\ pc' = "correlated"
    /\ UNCHANGED <<heap, probe_files, report, err, iperf_files, wifi_files, rows, iperf_logs, wifi_logs,
                   iperf_pos, ap_throughput, signals, coverage>>

NextBackhaul ==
    \/ LoadIperfLogs
    \/ LoadWifiLogs
    \/ NoIperfLogs
    \/ StartCorrelate
    \/ CorrelateStep
    \/ ReturnCorrelation

SpecBackhaul == InitBackhaul /\ [][NextBackhaul]_vars

(***************************************************************************)
(* The four readers, each applied to the log directory.                    *)
(***************************************************************************)
InitReaders ==
    /\ pc = "start"
    /\ err = "none"
    /\ InitLogDir
    /\ rows = <<>>
    /\ iperf_logs = <<>>
    /\ wifi_logs = <<>>
    /\ iperf_pos = 0
    /\ ap_throughput = <<>>
    /\ ScorerIdle
    /\ ReportsIdle

Returned(r, at) ==
    /\ rows' = r.rows
    /\ err' = r.raised
    /\ pc' = at
    /\ UNCHANGED <<heap, probe_files, report, iperf_files, wifi_files, iperf_logs, wifi_logs, iperf_pos,
                   ap_throughput, signals, coverage>>

\* analyze.py: read_csv_logs("wifi_probe.csv")
ReadCsvLogs ==
    /\ pc = "start"
    /\ \E hs \in find_all_hosts : Returned(read_csv_logs(hs, wifi_files), "read_csv_logs")

\* analyze.py: read_jsonl_logs on the files of JSON lines
ReadJsonlLogs ==
    /\ pc = "start"
    /\ \E hs \in find_all_hosts :
           Returned(read_jsonl_logs(hs, iperf_files), "read_jsonl_logs")

\* backhaul_inference.py: read_iperf_logs()
ReadIperfLogs ==
    /\ pc = "start"
    /\ \E hs \in find_all_hosts :
           Returned(read_iperf_logs(hs, iperf_files), "read_iperf_logs")

\* backhaul_inference.py: read_wifi_logs()
ReadWifiLogs ==
    /\ pc = "start"
    /\ \E hs \in find_all_hosts : Returned(read_wifi_logs(hs, wifi_files), "read_wifi_logs")

NextReaders == ReadCsvLogs \/ ReadJsonlLogs \/ ReadIperfLogs \/ ReadWifiLogs

SpecReaders == InitReaders /\ [][NextReaders]_vars

(***************************************************************************)
(* analyze.py: the CSV probes.  A field that the code converts to a number *)
(* is held by what int() and float() do with its text: a numeral, the      *)
(* empty text, or text that is no number ("N/A").  Loss percentages of the *)
(* model are whole numbers.                                                *)
(***************************************************************************)
NumText(n) == [k |-> "int", v |-> n]
EmptyText == [k |-> "empty", v |-> 0]
OtherText == [k |-> "text", v |-> 0]

\* row["_host"] = h, whatever the columns of the file
with_host(row, h) ==
    [f \in DOMAIN row \cup {"_host"} |-> IF f = "_host" THEN h ELSE row[f]]

RECURSIVE load_probe_hosts(_, _)
load_probe_hosts(hs, files) ==
    IF hs = <<>> THEN <<>>
    ELSE LET lines == file_lines(files, Head(hs))
         IN  [j \in DOMAIN lines |-> with_host(lines[j], Head(hs))]
                 \o load_probe_hosts(Tail(hs), files)

\* read_csv_logs(filename) for the other probes
read_probe_logs(hs, files) == sort_rows(load_probe_hosts(hs, files))

\* one turn of a loop followed by the turns after it: the first exception
\* raised, or everything appended
then_rest(first, rest) ==
    IF first.exc # "none" THEN first
    ELSE IF rest.exc # "none" THEN rest
    ELSE [exc |-> "none", add |-> first.add \o rest.add]

\* float(row.get(field, 0) or 0)
float_or_0(field) ==
    IF field.k = "text" THEN [exc |-> "ValueError", value |-> 0]
    ELSE IF field.k = "int" THEN [exc |-> "none", value |-> field.v]
    ELSE [exc |-> "none", value |-> 0]

\* the same list when a 100% WAN loss is not looked at
failure_type_without_wan(wan_loss, gw_loss, dns_ok) ==
    (IF gw_loss = 100 THEN <<"gateway">> ELSE <<>>)
        \o (IF dns_ok = "0" THEN <<"DNS">> ELSE <<>>)

\* failure_type, the list that ", ".join turns into the label
failure_type(wan_loss, gw_loss, dns_ok) ==
    (IF gw_loss = 100 THEN <<"gateway">> ELSE <<>>)
        \o (IF wan_loss = 100 THEN <<"WAN">> ELSE <<>>)
        \o (IF dns_ok = "0" THEN <<"DNS">> ELSE <<>>)

\* the body of the first loop of cmd_failures for one net_probe row: the
\* exception it raises, or the failures it appends (none or one)
net_failure(row) ==
    LET wan_loss == float_or_0(row.wan_loss_pct)
        gw_loss  == float_or_0(row.gw_loss_pct)
    IN  IF wan_loss.exc # "none" THEN [exc |-> wan_loss.exc, add |-> <<>>]
        ELSE IF gw_loss.exc # "none" THEN [exc |-> gw_loss.exc, add |-> <<>>]
        ELSE IF wan_loss.value = 100 \/ gw_loss.value = 100 \/ row.dns_ok = "0"
        THEN IF row.ts.kind = "absent" THEN [exc |-> "KeyError", add |-> <<>>]
             ELSE [exc |-> "none",
                   add |-> <<[ts |-> row.ts, host |-> row._host,
                              type |-> failure_type(wan_loss.value, gw_loss.value,
                                                    row.dns_ok),
                              source |-> "net_probe"]>>]
        ELSE [exc |-> "none", add |-> <<>>]

\* the body of the second loop for one wan_probe row
wan_failure(row) ==
    IF row.all_down = "1"
    THEN IF row.ts.kind = "absent" THEN [exc |-> "KeyError", add |-> <<>>]
         ELSE [exc |-> "none",
               add |-> <<[ts |-> row.ts, host |-> row._host,
                          type |-> <<"complete WAN outage">>,
                          source |-> "wan_probe"]>>]
    ELSE [exc |-> "none", add |-> <<>>]

RECURSIVE net_failures(_)
net_failures(net_rows) ==
    IF net_rows = <<>> THEN [exc |-> "none", add |-> <<>>]
    ELSE LET first == net_failure(Head(net_rows))
         IN  IF first.exc # "none" THEN first
             ELSE LET rest == net_failures(Tail(net_rows))
                  IN  IF rest.exc # "none" THEN rest
                      ELSE [exc |-> "none", add |-> first.add \o rest.add]

RECURSIVE wan_failures(_)
wan_failures(wan_rows) ==
    IF wan_rows = <<>> THEN [exc |-> "none", add |-> <<>>]
    ELSE LET first == wan_failure(Head(wan_rows))
         IN  IF first.exc # "none" THEN first
             ELSE LET rest == wan_failures(Tail(wan_rows))
                  IN  IF rest.exc # "none" THEN rest
                      ELSE [exc |-> "none", add |-> first.add \o rest.add]

\* cmd_failures: the exception that ends it, or the sorted list it prints from
cmd_failures(hs, net_files, wan_files) ==
    LET net_logs == read_probe_logs(hs, net_files)
        wan_logs == read_probe_logs(hs, wan_files)
        of_net   == net_failures(net_logs.rows)
        of_wan   == wan_failures(wan_logs.rows)
    IN  IF net_logs.raised # "none" THEN [exc |-> net_logs.raised, failures |-> <<>>]
        ELSE IF of_net.exc # "none" THEN [exc |-> of_net.exc, failures |-> <<>>]
        ELSE IF wan_logs.raised # "none" THEN [exc |-> wan_logs.raised, failures |-> <<>>]
        ELSE IF of_wan.exc # "none" THEN [exc |-> of_wan.exc, failures |-> <<>>]
        ELSE LET sorted == sort_rows(of_net.add \o of_wan.add)
             IN  [exc |-> sorted.raised, failures |-> sorted.rows]


\* [int(r["signal_dbm"]) for r in host_logs if r.get("signal_dbm")]: the
\* exception the comprehension raises, or the list
RECURSIVE int_signals(_)
int_signals(host_logs) ==
    IF host_logs = <<>> THEN [exc |-> "none", values |-> <<>>]
    ELSE LET s    == Head(host_logs).signal_dbm
             rest == int_signals(Tail(host_logs))
         IN  IF s.k = "text" THEN [exc |-> "ValueError", values |-> <<>>]
             ELSE IF rest.exc # "none" THEN rest
             ELSE [exc |-> "none",
                   values |-> (IF s.k = "int" THEN <<s.v>> ELSE <<>>) \o rest.values]

\* sum(1 for r in net_logs if float(r.get(field, 0) or 0) == 100)
count_full_loss(net_logs, field) ==
    IF \E j \in DOMAIN net_logs : net_logs[j][field].k = "text"
    THEN [exc |-> "ValueError", n |-> 0]
    ELSE [exc |-> "none",
          n |-> Cardinality({j \in DOMAIN net_logs :
                                 float_or_0(net_logs[j][field]).value = 100})]

\* the per-host lines of the WiFi section of cmd_summary
RECURSIVE summary_signals(_, _)
summary_signals(hs, wifi) ==
    IF hs = <<>> THEN [exc |-> "none", lines |-> <<>>]
    ELSE LET OfHost(r) == r._host = Head(hs)
             sigs == int_signals(SelectSeq(wifi, OfHost))
             rest == summary_signals(Tail(hs), wifi)
         IN  IF sigs.exc # "none" THEN [exc |-> sigs.exc, lines |-> <<>>]
             ELSE IF rest.exc # "none" THEN rest
             ELSE [exc |-> "none",
                   lines |-> (IF sigs.values = <<>> THEN <<>>
                              ELSE <<[host |-> Head(hs),
                                      sum |-> SumSeq(sigs.values),
                                      count |-> Len(sigs.values),
                                      worst |-> MinSeq(sigs.values)]>>)
                             \o rest.lines]

\* cmd_summary: the exception that ends it, or the figures it prints
cmd_summary(hs, net_files, wifi_files_, wan_files) ==
    LET none     == [exc |-> "none", no_logs |-> FALSE, net |-> <<>>, wifi |-> <<>>,
                     wan |-> <<>>]
        net_logs == read_probe_logs(hs, net_files)
        wan_f    == count_full_loss(net_logs.rows, "wan_loss_pct")
        gw_f     == count_full_loss(net_logs.rows, "gw_loss_pct")
        net      == IF net_logs.rows = <<>> THEN <<>>
                    ELSE <<[total |-> Len(net_logs.rows),
                            gw_failures |-> gw_f.n, wan_failures |-> wan_f.n,
                            dns_failures |-> Cardinality({j \in DOMAIN net_logs.rows :
                                                net_logs.rows[j].dns_ok = "0"})]>>
        wifi     == read_csv_logs(hs, wifi_files_)
        lines    == summary_signals(hs, wifi.rows)
        wan_logs == read_probe_logs(hs, wan_files)
        wan      == IF wan_logs.rows = <<>> THEN <<>>
                    ELSE <<[total |-> Len(wan_logs.rows),
                            all_down |-> Cardinality({j \in DOMAIN wan_logs.rows :
                                                wan_logs.rows[j].all_down = "1"})]>>
        raised(e) == [none EXCEPT !.exc = e]
    IN  IF hs = <<>> THEN [none EXCEPT !.no_logs = TRUE]
        ELSE IF net_logs.raised # "none" THEN raised(net_logs.raised)
        ELSE IF net_logs.rows # <<>> /\ wan_f.exc # "none" THEN raised(wan_f.exc)
        ELSE IF net_logs.rows # <<>> /\ gw_f.exc # "none" THEN raised(gw_f.exc)
        ELSE IF wifi.raised # "none" THEN raised(wifi.raised)
        ELSE IF lines.exc # "none" THEN raised(lines.exc)
        ELSE IF wan_logs.raised # "none" THEN raised(wan_logs.raised)
        ELSE [none EXCEPT !.net = net, !.wifi = lines.lines, !.wan = wan]

(***************************************************************************)
(* backhaul_inference.py: correlate_throughput_with_ap as a whole.         *)
(***************************************************************************)
RECURSIVE correlate_throughput_with_ap(_, _)
correlate_throughput_with_ap(iperfs, wifi) ==
    IF iperfs = <<>> THEN [exc |-> "none", add |-> <<>>]
    ELSE LET first == correlate_one(Head(iperfs), wifi)
         IN  IF first.exc # "none" THEN first
             ELSE LET rest == correlate_throughput_with_ap(Tail(iperfs), wifi)
                  IN  IF rest.exc # "none" THEN rest
                      ELSE [exc |-> "none", add |-> first.add \o rest.add]


(***************************************************************************)
(* coverage_gaps.py: analyze_coverage_gaps.  The files of the model have   *)
(* no snr_db and no band column, so those parts of the result are absent.  *)
(* A dict is held as the list of its items in insertion order.             *)
(***************************************************************************)
ReservedNames == {"failures", "snapshots", "archive"}

\* int(w.get("signal_dbm") or -100)
int_or_minus_100(field) ==
    IF field.k = "text" THEN [exc |-> "ValueError", value |-> 0]
    ELSE IF field.k = "int" THEN [exc |-> "none", value |-> field.v]
    ELSE [exc |-> "none", value |-> -100]

\* signal < DEAD_ZONE_THRESHOLD for the signal read at line 189
is_dead_event(w) == int_or_minus_100(w.signal_dbm).value < DEAD_ZONE_THRESHOLD

\* len(dead_events)
dead_zone_events(host_wifi) ==
    Cardinality({j \in DOMAIN host_wifi : is_dead_event(host_wifi[j])})

\* s.get("ap_name") or s.get("bssid"), "" standing for a name that is falsy
scan_ap(s) == IF s.ap_name # "" THEN s.ap_name ELSE s.bssid

\* the keys of visible_aps in insertion order
RECURSIVE first_seen(_, _)
first_seen(names, seen) ==
    IF names = <<>> THEN <<>>
    ELSE IF Head(names) = "" \/ Head(names) \in seen THEN first_seen(Tail(names), seen)
    ELSE <<Head(names)>> \o first_seen(Tail(names), seen \cup {Head(names)})

MaxSeq(sigs) == CHOOSE m \in {sigs[i] : i \in DOMAIN sigs} :
                    \A i \in DOMAIN sigs : sigs[i] <= m

\* ap_summary: avg_signal in tenths
ap_summary(host_scans) ==
    LET aps == first_seen([j \in DOMAIN host_scans |-> scan_ap(host_scans[j])], {})
    IN  [a \in DOMAIN aps |->
            LET OfAp(s) == scan_ap(s) = aps[a]
                rs   == SelectSeq(host_scans, OfAp)
                sigs == [j \in DOMAIN rs |-> int_or_minus_100(rs[j].signal_dbm).value]
            IN  [name |-> aps[a], avg_signal |-> Round1(mean(sigs)),
                 max_signal |-> MaxSeq(sigs), min_signal |-> MinSeq(sigs)]]

\* max(ap_summary.items(), key=avg_signal): the first of the largest
best_ap(summary) ==
    IF summary = <<>> THEN <<>>
    ELSE LET b == CHOOSE a \in DOMAIN summary :
                      /\ \A c \in DOMAIN summary :
                             summary[c].avg_signal <= summary[a].avg_signal
                      /\ \A c \in 1..(a - 1) :
                             summary[c].avg_signal < summary[a].avg_signal
         IN  <<summary[b]>>

\* the entry put in results["hosts"] for host h
host_entry(h, host_wifi, cov, summary) ==
    [host |-> h, score |-> cov.score, rating |-> cov.rating,
     avg_signal |-> cov.avg_signal,
     min_signal |-> cov.min_signal,
     breakdown |-> cov.breakdown,
     dead_zone_events |-> dead_zone_events(host_wifi),
     visible_aps |-> summary,
     best_ap |-> best_ap(summary)]

\* the body of the loop over hosts: the exception it raises, or the entry it
\* puts in results["hosts"] (none or one)
host_coverage(h, wifi_logs_, ap_scans) ==
    LET OfHost(r) == r._host = h
        host_wifi  == SelectSeq(wifi_logs_, OfHost)
        host_scans == SelectSeq(ap_scans, OfHost)
        sigs       == int_signals(host_wifi)
        bad_scan   == \E j \in DOMAIN host_scans : host_scans[j].signal_dbm.k = "text"
    IN  IF host_wifi = <<>> THEN [exc |-> "none", add |-> <<>>]
        ELSE IF sigs.exc # "none" THEN [exc |-> sigs.exc, add |-> <<>>]
        ELSE IF sigs.values = <<>> THEN [exc |-> "none", add |-> <<>>]
        ELSE IF bad_scan THEN [exc |-> "ValueError", add |-> <<>>]
        ELSE [exc |-> "none",
              add |-> <<host_entry(h, host_wifi, calculate_coverage_score(sigs.values),
                                   ap_summary(host_scans))>>]

RECURSIVE hosts_coverage(_, _, _)
hosts_coverage(hs, wifi_logs_, ap_scans) ==
    IF hs = <<>> THEN [exc |-> "none", add |-> <<>>]
    ELSE then_rest(host_coverage(Head(hs), wifi_logs_, ap_scans),
                   hosts_coverage(Tail(hs), wifi_logs_, ap_scans))

\* x / n for a float x >= 0 and an int n > 0
FDivSmall(x, n) ==
    LET d4 == x.mag[4] \div n
        r4 == x.mag[4] % n
        d3 == (r4 * LimbBase + x.mag[3]) \div n
        r3 == (r4 * LimbBase + x.mag[3]) % n
        d2 == (r3 * LimbBase + x.mag[2]) \div n
        r2 == (r3 * LimbBase + x.mag[2]) % n
        d1 == (r2 * LimbBase + x.mag[1]) \div n
        r1 == (r2 * LimbBase + x.mag[1]) % n
    IN  [neg |-> FALSE, mag |-> RoundToDouble(<<d1, d2, d3, d4>>, r1 # 0)]

\* the exact sum of the floats score / 10 of the entries
RECURSIVE exact_sum_of_scores(_)
exact_sum_of_scores(entries) ==
    IF entries = <<>> THEN BigZero
    ELSE BigAdd(FDiv(Head(entries).score, 10).mag, exact_sum_of_scores(Tail(entries)))

\* round(mean(host_scores), 1) in tenths; statistics.mean sums exactly
overall_score(entries) ==
    IF entries = <<>> THEN 0
    ELSE Round1(FDivSmall([neg |-> FALSE, mag |-> exact_sum_of_scores(entries)],
                          Len(entries)))

IsDeadZone(e) == e.score < 250
IsWeakArea(e) == e.score >= 250 /\ e.score < 500

\* the recommendations on dead zones and weak coverage
recommendations(dead_zones, weak_areas) ==
    (IF dead_zones = <<>> THEN <<>>
     ELSE <<[priority |-> "high",
             hosts |-> [j \in DOMAIN dead_zones |-> dead_zones[j].host]]>>)
    \o (IF weak_areas = <<>> THEN <<>>
        ELSE <<[priority |-> "medium",
                hosts |-> [j \in DOMAIN weak_areas |-> weak_areas[j].host]]>>)

no_coverage ==
    [exc |-> "none", error |-> FALSE, hosts |-> <<>>, overall_score |-> 0,
     dead_zones |-> <<>>, weak_areas |-> <<>>, coverage_recommendations |-> <<>>]

\* the result built from the entries of the hosts
coverage_of_hosts(per) ==
    IF per.exc # "none" THEN [no_coverage EXCEPT !.exc = per.exc]
    ELSE [no_coverage EXCEPT
              !.hosts = per.add,
              !.overall_score = overall_score(per.add),
              !.dead_zones = SelectSeq(per.add, IsDeadZone),
              !.weak_areas = SelectSeq(per.add, IsWeakArea),
              !.coverage_recommendations =
                  recommendations(SelectSeq(per.add, IsDeadZone),
                                  SelectSeq(per.add, IsWeakArea))]

coverage_of_logs(hs, wifi, scans) ==
    IF hs = <<>> THEN [no_coverage EXCEPT !.error = TRUE]
    ELSE IF wifi.raised # "none" THEN [no_coverage EXCEPT !.exc = wifi.raised]
    ELSE IF scans.raised # "none" THEN [no_coverage EXCEPT !.exc = scans.raised]
    ELSE coverage_of_hosts(hosts_coverage(hs, wifi.rows, scans.rows))

\* analyze_coverage_gaps, hs being what find_all_hosts returned
analyze_coverage_gaps(hs, wifi_files_, scan_files) ==
    coverage_of_logs(hs, read_csv_logs(hs, wifi_files_),
                     read_probe_logs(hs, scan_files))

(***************************************************************************)
(* backhaul_inference.py: analyze_backhaul_quality.  Throughputs of the    *)
(* model are whole Mbit/s; their mean is the float statistics.mean         *)
(* returns, the exact quotient rounded once.  The standard deviation is    *)
(* held by the exact quantity it is the square root of.                    *)
(***************************************************************************)
\* the orders in which the members of the set S can be listed
Orderings(S) ==
    {o \in [1..Cardinality(S) -> S] : \A j, k \in DOMAIN o : j # k => o[j] # o[k]}

\* x < y for floats x, y >= 0
FLess(x, y) == BigLess(x.mag, y.mag)

\* every host directory listed, with measurements of the AP or without
list_of_dirs(members, order) == order

\* list(set(m["host"] for m in measurements)): the hosts in the order the
\* set yields them, which follows order
list_of_set(members, order) ==
    LET Member(h) == h \in members IN SelectSeq(order, Member)

\* mean(signals) if signals else None
avg_signal_of(measurements) ==
    LET HasSignal(m) == m.signal_dbm.k = "int"
        with == SelectSeq(measurements, HasSignal)
    IN  IF with = <<>> THEN <<>>
        ELSE <<mean([j \in DOMAIN with |-> with[j].signal_dbm.v])>>

\* n * sum(x^2) - sum(x)^2: stdev is the square root of this over n (n - 1)
spread_of(throughputs) ==
    Len(throughputs) * SumSeq([j \in DOMAIN throughputs |-> throughputs[j] * throughputs[j]])
        - SumSeq(throughputs) * SumSeq(throughputs)

\* the thresholds compared with <= instead of <
quality_of_inclusive(avg_throughput) ==
    IF ~FLess(FloatOfInt(20), avg_throughput) THEN "Poor"
    ELSE IF ~FLess(FloatOfInt(50), avg_throughput) THEN "Fair"
    ELSE IF ~FLess(FloatOfInt(100), avg_throughput) THEN "Good"
    ELSE "Excellent"

quality_of(avg_throughput) ==
    IF ~FGeqInt(avg_throughput, 20) THEN "Poor"
    ELSE IF ~FGeqInt(avg_throughput, 50) THEN "Fair"
    ELSE IF ~FGeqInt(avg_throughput, 100) THEN "Good"
    ELSE "Excellent"

\* the entry appended for one key of ap_throughput
entry_of(ap_name, measurements, order, throughputs, avg) ==
        [ap_name |-> ap_name,
         avg_throughput_mbps |-> avg,
         spread |-> IF Len(throughputs) > 1 THEN spread_of(throughputs) ELSE 0,
         min_throughput_mbps |-> MinSeq(throughputs),
         max_throughput_mbps |-> MaxSeq(throughputs),
         avg_signal_dbm |-> avg_signal_of(measurements),
         sample_count |-> Len(measurements),
         hosts |-> list_of_set({measurements[j].host : j \in DOMAIN measurements},
                               order),
         quality |-> quality_of(avg),
         measurements |-> measurements]

quality_entry(ap_name, measurements, order) ==
    entry_of(ap_name, measurements, order,
             [j \in DOMAIN measurements |-> measurements[j].throughput_mbps],
             mean([j \in DOMAIN measurements |-> measurements[j].throughput_mbps]))

\* results.sort(key=avg_throughput_mbps): stable
insert_by_avg(sorted, r) ==
    LET p == Cardinality({j \in DOMAIN sorted :
                 ~FLess(r.avg_throughput_mbps, sorted[j].avg_throughput_mbps)})
    IN  SubSeq(sorted, 1, p) \o <<r>> \o SubSeq(sorted, p + 1, Len(sorted))

RECURSIVE sort_by_avg_from(_, _)
sort_by_avg_from(sorted, rest) ==
    IF rest = <<>> THEN sorted
    ELSE sort_by_avg_from(insert_by_avg(sorted, Head(rest)), Tail(rest))

sort_by_avg(results) == sort_by_avg_from(<<>>, results)

\* the keys of ap_throughput in insertion order
ap_keys(ap_tp) == first_seen([j \in DOMAIN ap_tp |-> ap_tp[j].ap], {})

\* analyze_backhaul_quality; orders[i] is the order in which the set of hosts
\* built for the i-th key yields its members
analyze_backhaul_quality(ap_tp, orders) ==
    LET keys == ap_keys(ap_tp)
    IN  sort_by_avg([i \in DOMAIN keys |->
            LET OfAp(m) == m.ap = keys[i]
            IN  quality_entry(keys[i], SelectSeq(ap_tp, OfAp), orders[i])])


(***************************************************************************)
(* analyze.py: cmd_timeline.  cutoff is the instant 24 hours before now;   *)
(* its text carries microseconds, so a zone-less ts of the same second is  *)
(* before it and one with a trailing Z is after it.  Text is compared as   *)
(* Python compares str: by the codes of its characters.                    *)
(***************************************************************************)
\* the place of a name among the names of the model, in text order
text_rank(name) ==
    CASE name = "" -> 0
      [] name = "AP-Kitchen" -> 1
      [] name = "AP-Office" -> 2
      [] name = "aa:01" -> 3
      [] name = "aa:02" -> 4
      [] name = "archive" -> 5
      [] name = "failures" -> 6
      [] name = "pi1" -> 7
      [] name = "pi2" -> 8
      [] name = "snapshots" -> 9
      [] name = "unknown" -> 10

\* the character codes of str(n) for n >= 0
RECURSIVE digits_of(_)
digits_of(n) ==
    IF n < 10 THEN <<48 + n>> ELSE digits_of(n \div 10) \o <<48 + (n % 10)>>

\* the character codes of str(n)
decimal_text(n) == IF n < 0 THEN <<45>> \o digits_of(-n) ELSE digits_of(n)

\* a < b for two texts given by their character codes
RECURSIVE codes_less(_, _)
codes_less(a, b) ==
    IF b = <<>> THEN FALSE
    ELSE IF a = <<>> THEN TRUE
    ELSE IF Head(a) # Head(b) THEN Head(a) < Head(b)
    ELSE codes_less(Tail(a), Tail(b))

\* what tells two descriptions apart: "High WAN loss: 100%" or
\* "Weak signal: -80 dBm on AP-Office"
desc_codes(e) ==
    IF e.kind = "High WAN loss"
    THEN <<72>> \o decimal_text(e.value) \o <<37>>
    ELSE <<87>> \o decimal_text(e.value) \o <<32, text_rank(e.ap)>>

\* row["ts"] < cutoff_str: the exception it raises, or its value
before_cutoff(ts, cutoff) ==
    IF ts.kind = "absent" THEN [exc |-> "KeyError", value |-> FALSE]
    ELSE IF ts.kind = "null" THEN [exc |-> "TypeError", value |-> FALSE]
    ELSE [exc |-> "none",
          value |-> \/ ts.kind = "naive" /\ ts.t <= cutoff
                    \/ ts.kind = "utc" /\ ts.t < cutoff]

\* the body of the first loop of cmd_timeline for one net_probe row
wan_loss_event(row, cutoff) ==
    LET old      == before_cutoff(row.ts, cutoff)
        wan_loss == float_or_0(row.wan_loss_pct)
    IN  IF old.exc # "none" THEN [exc |-> old.exc, add |-> <<>>]
        ELSE IF old.value THEN [exc |-> "none", add |-> <<>>]
        ELSE IF wan_loss.exc # "none" THEN [exc |-> wan_loss.exc, add |-> <<>>]
        ELSE IF wan_loss.value > 50
        THEN [exc |-> "none",
              add |-> <<[ts |-> row.ts, host |-> row._host, kind |-> "High WAN loss",
                         value |-> wan_loss.value, ap |-> ""]>>]
        ELSE [exc |-> "none", add |-> <<>>]

\* signal < -75 for the signal read at line 252
is_weak_event(signal) == signal < -75

\* the body of the second loop for one wifi_probe row
weak_signal_event(row, cutoff) ==
    LET old    == before_cutoff(row.ts, cutoff)
        signal == int_or_minus_100(row.signal_dbm)
    IN  IF old.exc # "none" THEN [exc |-> old.exc, add |-> <<>>]
        ELSE IF old.value THEN [exc |-> "none", add |-> <<>>]
        ELSE IF signal.exc # "none" THEN [exc |-> signal.exc, add |-> <<>>]
        ELSE IF is_weak_event(signal.value)
        THEN [exc |-> "none",
              add |-> <<[ts |-> row.ts, host |-> row._host, kind |-> "Weak signal",
                         value |-> signal.value, ap |-> row.ap_name]>>]
        ELSE [exc |-> "none", add |-> <<>>]

RECURSIVE wan_loss_events(_, _)
wan_loss_events(net_rows, cutoff) ==
    IF net_rows = <<>> THEN [exc |-> "none", add |-> <<>>]
    ELSE then_rest(wan_loss_event(Head(net_rows), cutoff),
                   wan_loss_events(Tail(net_rows), cutoff))

RECURSIVE weak_signal_events(_, _)
weak_signal_events(wifi_rows, cutoff) ==
    IF wifi_rows = <<>> THEN [exc |-> "none", add |-> <<>>]
    ELSE then_rest(weak_signal_event(Head(wifi_rows), cutoff),
                   weak_signal_events(Tail(wifi_rows), cutoff))

\* (ts, host, desc) < (ts, host, desc) as tuples of str
event_less(a, b) ==
    \/ ts_key_less(a.ts, b.ts)
    \/ /\ a.ts = b.ts
       /\ \/ text_rank(a.host) < text_rank(b.host)
          \/ a.host = b.host /\ codes_less(desc_codes(a), desc_codes(b))

\* events.sort()
insert_event(sorted, e) ==
    LET p == Cardinality({j \in DOMAIN sorted : ~event_less(e, sorted[j])})
    IN  SubSeq(sorted, 1, p) \o <<e>> \o SubSeq(sorted, p + 1, Len(sorted))

RECURSIVE sort_events_from(_, _)
sort_events_from(sorted, rest) ==
    IF rest = <<>> THEN sorted
    ELSE sort_events_from(insert_event(sorted, Head(rest)), Tail(rest))

\* events[-30:]
last_30(events) ==
    IF Len(events) <= 30 THEN events ELSE SubSeq(events, Len(events) - 29, Len(events))

timeline_of_events(of_net, wifi, of_wifi) ==
    IF of_net.exc # "none" THEN [exc |-> of_net.exc, events |-> <<>>]
    ELSE IF wifi.raised # "none" THEN [exc |-> wifi.raised, events |-> <<>>]
    ELSE IF of_wifi.exc # "none" THEN [exc |-> of_wifi.exc, events |-> <<>>]
    ELSE [exc |-> "none",
          events |-> last_30(sort_events_from(<<>>, of_net.add \o of_wifi.add))]

timeline_of_logs(net, wifi, cutoff) ==
    IF net.raised # "none" THEN [exc |-> net.raised, events |-> <<>>]
    ELSE timeline_of_events(wan_loss_events(net.rows, cutoff), wifi,
                            weak_signal_events(wifi.rows, cutoff))

\* cmd_timeline: the exception that ends it, or the events it prints
cmd_timeline(hs, net_files, wifi_files_, cutoff) ==
    timeline_of_logs(read_probe_logs(hs, net_files), read_csv_logs(hs, wifi_files_),
                     cutoff)

(***************************************************************************)
(* analyze.py: cmd_visibility.  ap_visibility is held as the list of its   *)
(* items in insertion order.                                               *)
(***************************************************************************)
\* s.get("ap_name") or s.get("bssid") or "unknown"
visible_ap(s) ==
    IF s.ap_name # "" THEN s.ap_name ELSE IF s.bssid # "" THEN s.bssid ELSE "unknown"

\* int(info.get("signal") or -100) for a signal that is a number or empty
signal_or_minus_100(field) == IF field.k = "int" THEN field.v ELSE -100

\* one turn of the loop over host_scans: the row replaces the entry of its AP
\* when it carries a signal stronger than the one kept
keep_strongest(vis, s) ==
    LET ap   == visible_ap(s)
        info == [ap |-> ap, signal |-> s.signal_dbm, connected |-> s.is_connected = "1"]
        at   == {j \in DOMAIN vis : vis[j].ap = ap}
    IN  IF at = {} THEN Append(vis, info)
        ELSE IF /\ s.signal_dbm.k = "int"
                /\ s.signal_dbm.v > signal_or_minus_100(vis[CHOOSE j \in at : TRUE].signal)
        THEN [j \in DOMAIN vis |-> IF j \in at THEN info ELSE vis[j]]
        ELSE vis

RECURSIVE ap_visibility(_, _)
ap_visibility(vis, host_scans) ==
    IF host_scans = <<>> THEN vis
    ELSE ap_visibility(keep_strongest(vis, Head(host_scans)), Tail(host_scans))

\* sorted(..., key=signal, reverse=True): equal signals keep their order
insert_by_signal(sorted, info) ==
    LET p == Cardinality({j \in DOMAIN sorted :
                              signal_or_minus_100(sorted[j].signal)
                                  >= signal_or_minus_100(info.signal)})
    IN  SubSeq(sorted, 1, p) \o <<info>> \o SubSeq(sorted, p + 1, Len(sorted))

RECURSIVE sort_by_signal(_, _)
sort_by_signal(sorted, rest) ==
    IF rest = <<>> THEN sorted
    ELSE sort_by_signal(insert_by_signal(sorted, Head(rest)), Tail(rest))

\* the APs the note counts: none without a connected AP
better_aps(sorted_aps) ==
    LET IsConnected(info) == info.connected
        connected == SelectSeq(sorted_aps, IsConnected)
        Better(info) ==
            /\ ~info.connected
            /\ signal_or_minus_100(info.signal)
                   > signal_or_minus_100(connected[1].signal) + 5
    IN  IF connected = <<>> THEN <<>> ELSE SelectSeq(sorted_aps, Better)

\* what is printed for a host with scans
host_visibility(h, sorted_aps) ==
    [host |-> h, aps |-> SubSeq(sorted_aps, 1, IF Len(sorted_aps) < 10
                                               THEN Len(sorted_aps) ELSE 10),
     sticky |-> better_aps(sorted_aps) # <<>>]

RECURSIVE hosts_visibility(_, _)
hosts_visibility(hs, scan_logs) ==
    IF hs = <<>> THEN [exc |-> "none", add |-> <<>>]
    ELSE LET OfHost(s) == s._host = Head(hs)
             host_scans == SelectSeq(scan_logs, OfHost)
         IN  then_rest(
                 IF host_scans = <<>> THEN [exc |-> "none", add |-> <<>>]
                 ELSE IF \E j \in DOMAIN host_scans : host_scans[j].signal_dbm.k = "text"
                 THEN [exc |-> "ValueError", add |-> <<>>]
                 ELSE [exc |-> "none",
                       add |-> <<host_visibility(Head(hs),
                                     sort_by_signal(<<>>, ap_visibility(<<>>, host_scans)))>>],
                 hosts_visibility(Tail(hs), scan_logs))

visibility_of_logs(hs, scan_logs) ==
    IF scan_logs.raised # "none" THEN [exc |-> scan_logs.raised, add |-> <<>>]
    ELSE hosts_visibility(hs, scan_logs.rows)

\* cmd_visibility: the exception that ends it, or the hosts it prints
cmd_visibility(hs, scan_files) ==
    visibility_of_logs(hs, read_probe_logs(hs, scan_files))

(***************************************************************************)
(* The commands, each run as a whole on a log directory.  The directories  *)
(* under LOG_DIR are the domain of the file variables; a LOG_DIR that does *)
(* not exist has none.  A directory without a file of a kind holds <<>>    *)
(* for it, which is what the readers make of a missing file.               *)
(***************************************************************************)
\* [d.name for d in log_path.iterdir() if d.is_dir()], [] when LOG_DIR does
\* not exist: analyze.py and backhaul_inference.py
list_host_dirs(files) == Orderings(DOMAIN files)

\* coverage_gaps.py: ... and d.name not in exclude
list_host_dirs_excluding(files) == Orderings(DOMAIN files \ ReservedNames)

NetRow(ts, wan, gw, dns) ==
    [ts |-> ts, wan_loss_pct |-> wan, gw_loss_pct |-> gw, dns_ok |-> dns]

WanRow(ts, all_down) == [ts |-> ts, all_down |-> all_down]

ScanRow(ts, ap_name, signal, is_connected) ==
    [ts |-> ts, ap_name |-> ap_name, bssid |-> "", signal_dbm |-> signal,
     is_connected |-> is_connected]

\* no file of the kind in any directory
NoFiles(dirs) == [d \in dirs |-> <<>>]

\* the file of pi1 alone
OnlyPi1(file) == [h \in Hosts |-> IF h = "pi1" THEN file ELSE <<>>]

\* the exit status of the process: 1 after an uncaught exception
exit_status(exc, code) == IF exc # "none" THEN 1 ELSE code

\* backhaul_inference.py main up to the correlation: the exception, the
\* status of sys.exit, and ap_throughput
backhaul_correlation(hs, iperf_files_, wifi_files_) ==
    LET none  == [exc |-> "none", exit |-> 0, ap_throughput |-> <<>>]
        iperf == read_iperf_logs(hs, iperf_files_)
        wifi  == read_wifi_logs(hs, wifi_files_)
        found == correlate_throughput_with_ap(iperf.rows, wifi.rows)
    IN  IF iperf.raised # "none" THEN [none EXCEPT !.exc = iperf.raised]
        ELSE IF wifi.raised # "none" THEN [none EXCEPT !.exc = wifi.raised]
        ELSE IF iperf.rows = <<>> THEN [none EXCEPT !.exit = 1]
        ELSE IF found.exc # "none" THEN [none EXCEPT !.exc = found.exc]
        ELSE [none EXCEPT !.ap_throughput = found.add]

MaxNet == 2         \* rows of a net_probe.csv

\* a wifi row whose signal_dbm is no number
TextSignalAp == [ap_name |-> "AP-Office", bssid |-> "aa:01", signal_dbm |-> OtherText]

\* records with an unparsable numeric field among well-formed ones
InitMalformed ==
    /\ iperf_files = OnlyPi1(<<GoodLine(Naive(100), "download")>>)
    /\ \E own \in SeqsFromTo({WifiRow(Naive(100), NamedAp),
                              WifiRow(Naive(100), TextSignalAp),
                              WifiRow(Naive(95), UnnamedAp)}, 1, MaxWifi),
          other \in {<<>>, <<WifiRow(Naive(100), NamedAp)>>} :
           wifi_files = [h \in Hosts |-> IF h = "pi1" THEN own ELSE other]
    /\ \E net \in SeqsUpTo({NetRow(Naive(100), NumText(100), NumText(0), "1"),
                            NetRow(Naive(100), OtherText, NumText(0), "1"),
                            NetRow(Naive(100), NumText(0), OtherText, "0")}, MaxNet) :
           probe_files = [net_probe |-> OnlyPi1(net),
                          wan_probe |-> OnlyPi1(<<WanRow(Naive(100), "1")>>),
                          ap_scan |-> NoFiles(Hosts)]

DirNames == {"pi1", "failures", "snapshots", "archive"}

\* every set of directories under LOG_DIR, each with a file of every kind
InitDirectories ==
    \E dirs \in SUBSET DirNames :
        /\ iperf_files = [d \in dirs |-> <<GoodLine(Naive(100), "download")>>]
        /\ wifi_files = [d \in dirs |-> <<WifiRow(Naive(100), NamedAp)>>]
        /\ probe_files =
               [net_probe |-> [d \in dirs |->
                                  <<NetRow(Naive(100), NumText(100), NumText(0), "1")>>],
                wan_probe |-> [d \in dirs |-> <<WanRow(Naive(100), "1")>>],
                ap_scan |-> [d \in dirs |->
                                <<ScanRow(Naive(100), "AP-Office", NumText(-60), "1")>>]]

\* host directories without the files a command reads
InitNoLogs ==
    \E dirs \in SUBSET Hosts, kinds \in SUBSET {"iperf", "wifi", "net", "wan"} :
        LET File(kind, row) == [d \in dirs |-> IF kind \in kinds THEN <<row>> ELSE <<>>]
        IN  /\ iperf_files = File("iperf", GoodLine(Naive(100), "download"))
            /\ wifi_files = File("wifi", WifiRow(Naive(100), NamedAp))
            /\ probe_files =
                   [net_probe |-> File("net", NetRow(Naive(100), NumText(0),
                                                     NumText(0), "1")),
                    wan_probe |-> File("wan", WanRow(Naive(100), "0")),
                    ap_scan |-> NoFiles(dirs)]

NetRows ==
    {NetRow(Naive(100), NumText(w), NumText(g), d) :
         w \in {0, 100}, g \in {0, 100}, d \in {"0", "1"}}
    \cup {NetRow(Naive(80), NumText(100), NumText(0), "1"),
          NetRow(Naive(100), NumText(50), EmptyText, "1")}

\* net_probe and wan_probe rows with every combination of causes
InitProbes ==
    /\ iperf_files = NoFiles(Hosts)
    /\ wifi_files = NoFiles(Hosts)
    /\ \E own \in SeqsUpTo(NetRows, MaxNet),
          other \in {<<>>, <<NetRow(Naive(95), NumText(0), NumText(100), "0")>>},
          wan \in {<<>>, <<WanRow(Naive(95), "1")>>, <<WanRow(Naive(95), "0")>>} :
           probe_files = [net_probe |-> [h \in Hosts |-> IF h = "pi1" THEN own ELSE other],
                          wan_probe |-> OnlyPi1(wan),
                          ap_scan |-> NoFiles(Hosts)]

EdgeSignals == {NumText(-81), NumText(-80), NumText(-76), NumText(-75), EmptyText}

\* wifi rows with signals at the edges of the event thresholds, and without
InitSignals ==
    /\ iperf_files = NoFiles(Hosts)
    /\ \E own \in SeqsFromTo({WifiRow(Naive(100), [ap_name |-> "AP-Office",
                                  bssid |-> "aa:01", signal_dbm |-> s]) :
                                  s \in EdgeSignals}, 1, MaxWifi),
          other \in {<<>>, <<WifiRow(Naive(95), NamedAp)>>} :
           wifi_files = [h \in Hosts |-> IF h = "pi1" THEN own ELSE other]
    /\ probe_files = [net_probe |-> NoFiles(Hosts), wan_probe |-> NoFiles(Hosts),
                      ap_scan |-> NoFiles(Hosts)]

MaxScans == 3       \* rows of an ap_scan.csv

ScanRows ==
    {ScanRow(Naive(100), "AP-Office", NumText(-65), "1"),
     ScanRow(Naive(100), "AP-Office", NumText(-60), "0"),
     ScanRow(Naive(100), "AP-Office", EmptyText, "1"),
     ScanRow(Naive(100), "AP-Kitchen", NumText(-58), "0"),
     ScanRow(Naive(100), "AP-Kitchen", NumText(-60), "0"),
     ScanRow(Naive(100), "AP-Kitchen", NumText(-50), "0"),
     ScanRow(Naive(100), "AP-Kitchen", NumText(-58), "1"),
     ScanRow(Naive(100), "AP-Kitchen", EmptyText, "0")}

\* scans of a host that see two APs, connected to one of them or to none
InitScans ==
    /\ iperf_files = NoFiles(Hosts)
    /\ wifi_files = OnlyPi1(<<WifiRow(Naive(100), NamedAp)>>)
    /\ \E scans \in SeqsFromTo(ScanRows, 1, MaxScans) :
           probe_files = [net_probe |-> NoFiles(Hosts), wan_probe |-> NoFiles(Hosts),
                          ap_scan |-> OnlyPi1(scans)]

InitCommandDir ==
    \/ InitMalformed
    \/ InitDirectories
    \/ InitNoLogs
    \/ InitProbes
    \/ InitSignals
    \/ InitScans

InitCommands ==
    /\ pc = "start"
    /\ err = "none"
    /\ InitCommandDir
    /\ rows = <<>>
    /\ iperf_logs = <<>>
    /\ wifi_logs = <<>>
    /\ iperf_pos = 0
    /\ ap_throughput = <<>>
    /\ ScorerIdle
    /\ report = <<>>
    /\ heap = <<>>

\* the command ended: with an exception, or with a status and what it printed
Ended(at, exc, code, out) ==
    /\ pc' = at
    /\ err' = exc
    /\ report' = [exit |-> exit_status(exc, code), out |-> out]
    /\ UNCHANGED <<heap, iperf_files, wifi_files, probe_files, rows, iperf_logs,
                   wifi_logs, iperf_pos, ap_throughput, signals, coverage>>

\* a command that returns to main, r being what it produced
Printed(at, r) == Ended(at, r.exc, 0, r)

\* backhaul_inference.py main from the correlation r on
Analyzed(at, r) ==
    \E orders \in [DOMAIN ap_keys(r.ap_throughput) -> Orderings(DOMAIN iperf_files)] :
        Ended(at, r.exc, r.exit, analyze_backhaul_quality(r.ap_throughput, orders))

\* analyze.py summary
CmdSummary ==
    /\ pc = "start"
    /\ \E hs \in list_host_dirs(wifi_files) :
           Printed("cmd_summary", cmd_summary(hs, probe_files.net_probe, wifi_files,
                                              probe_files.wan_probe))

\* analyze.py failures
CmdFailures ==
    /\ pc = "start"
    /\ \E hs \in list_host_dirs(wifi_files) :
           Printed("cmd_failures",
                   cmd_failures(hs, probe_files.net_probe, probe_files.wan_probe))

\* coverage_gaps.py main
CoverageMain ==
    /\ pc = "start"
    /\ \E hs \in list_host_dirs_excluding(wifi_files) :
           Printed("coverage_main",
                   analyze_coverage_gaps(hs, wifi_files, probe_files.ap_scan))

\* backhaul_inference.py main
BackhaulMain ==
    /\ pc = "start"
    /\ \E hs \in list_host_dirs(iperf_files) :
           Analyzed("backhaul_main",
                    backhaul_correlation(hs, iperf_files, wifi_files))

\* the instants the command can take for now - 24 hours
Cutoffs == {90, 97}

\* analyze.py timeline
CmdTimeline ==
    /\ pc = "start"
    /\ \E hs \in list_host_dirs(wifi_files), cutoff \in Cutoffs :
           Printed("cmd_timeline",
                   cmd_timeline(hs, probe_files.net_probe, wifi_files, cutoff))

\* analyze.py visibility
CmdVisibility ==
    /\ pc = "start"
    /\ \E hs \in list_host_dirs(wifi_files) :
           Printed("cmd_visibility", cmd_visibility(hs, probe_files.ap_scan))

NextCommands ==
    \/ CmdSummary
    \/ CmdFailures
    \/ CmdTimeline
    \/ CmdVisibility
    \/ CoverageMain
    \/ BackhaulMain

SpecCommands == InitCommands /\ [][NextCommands]_vars

(***************************************************************************)
(* analyze_backhaul_quality on its own, on throughputs around the quality  *)
(* thresholds.                                                             *)
(***************************************************************************)
MaxSamples == 3     \* measurements in ap_throughput

EdgeThroughputs == {19, 20, 50, 99, 100}

\* what correlate_throughput_with_ap appends for one iperf record
Measurements ==
    {[ap |-> a, throughput_mbps |-> t, mode |-> "download", host |-> h,
      ts |-> Naive(100), signal_dbm |-> NoSignal] :
         a \in {"AP-Office", "AP-Kitchen"}, t \in EdgeThroughputs, h \in Hosts}

InitQuality ==
    /\ pc = "start"
    /\ err = "none"
    /\ ap_throughput \in SeqsUpTo(Measurements, MaxSamples)
    /\ iperf_files = <<>>
    /\ wifi_files = <<>>
    /\ rows = <<>>
    /\ iperf_logs = <<>>
    /\ wifi_logs = <<>>
    /\ iperf_pos = 0
    /\ ScorerIdle
    /\ ReportsIdle

AnalyzeBackhaulQuality ==
    /\ pc = "start"
    /\ \E orders \in [DOMAIN ap_keys(ap_throughput) -> Orderings(Hosts)] :
           Ended("analyze_backhaul_quality", "none", 0,
                 analyze_backhaul_quality(ap_throughput, orders))

NextQuality == AnalyzeBackhaulQuality

SpecQuality == InitQuality /\ [][NextQuality]_vars


(***************************************************************************)
(* analyze.py: cmd_roaming.  A line of wifi_events.jsonl is held as its    *)
(* kind, ts and event.                                                     *)
(***************************************************************************)
\* read_jsonl_logs on wifi_events.jsonl: the loop over the lines of a file,
\* which skips a line that is no JSON and fails on a JSON value that is no
\* object.  A file of events is long, so the loop is written without recursion.
load_event_lines(h, lines) ==
    LET IsJsonObject(line) == line.kind = "object"
        objects == SelectSeq(lines, IsJsonObject)
    IN  IF \E j \in DOMAIN lines : lines[j].kind = "scalar"
        THEN [raised |-> "TypeError", rows |-> <<>>]
        ELSE [raised |-> "none",
              rows |-> [j \in DOMAIN objects |-> with_host(objects[j], h)]]

RECURSIVE load_event_hosts(_, _)
load_event_hosts(hs, files) ==
    IF hs = <<>> THEN [raised |-> "none", rows |-> <<>>]
    ELSE LET first == load_event_lines(Head(hs), file_lines(files, Head(hs)))
             rest  == load_event_hosts(Tail(hs), files)
         IN  IF first.raised # "none" THEN first
             ELSE IF rest.raised # "none" THEN rest
             ELSE [raised |-> "none", rows |-> first.rows \o rest.rows]

\* rows.sort(key=lambda r: r.get("ts", "")) on a long list: the records with
\* the least key in the order they have, then the others sorted likewise
RECURSIVE least_first(_, _)
least_first(rs, least) ==
    LET IsLeast(r) == ~ts_key_less(least, r.ts)
        IsLater(r) == ts_key_less(least, r.ts)
        later == SelectSeq(rs, IsLater)
    IN  SelectSeq(rs, IsLeast)
            \o (IF later = <<>> THEN <<>>
                ELSE least_first(later,
                         later[CHOOSE j \in DOMAIN later : \A k \in DOMAIN later :
                                   ~ts_key_less(later[k].ts, later[j].ts)].ts))

sort_events(rs) ==
    IF Len(rs) >= 2 /\ \E j \in DOMAIN rs : rs[j].ts.kind = "null"
    THEN [raised |-> "TypeError", rows |-> <<>>]
    ELSE [raised |-> "none",
          rows |-> IF rs = <<>> THEN <<>>
                   ELSE least_first(rs, rs[CHOOSE j \in DOMAIN rs : \A k \in DOMAIN rs :
                                               ~ts_key_less(rs[k].ts, rs[j].ts)].ts)]

events_of_loaded(loaded) ==
    IF loaded.raised # "none" THEN loaded ELSE sort_events(loaded.rows)

read_event_logs(hs, files) == events_of_loaded(load_event_hosts(hs, files))

\* len(events) / hours if events else 0
per_hour(count) == FDiv(count, 24)

\* the first test with <= in place of <
is_stable_inclusive(disconnects_per_hour, roams_per_hour) ==
    /\ ~FLess(FDiv(1, 2), disconnects_per_hour)
    /\ ~FLess(FloatOfInt(1), roams_per_hour)

\* disconnects_per_hour < 0.5 and roams_per_hour < 1
is_stable(disconnects_per_hour, roams_per_hour) ==
    /\ FLess(disconnects_per_hour, FDiv(1, 2))
    /\ FLess(roams_per_hour, FloatOfInt(1))

\* disconnects_per_hour < 2 and roams_per_hour < 5
is_moderate(disconnects_per_hour, roams_per_hour) ==
    /\ FLess(disconnects_per_hour, FloatOfInt(2))
    /\ FLess(roams_per_hour, FloatOfInt(5))

stability_of(disconnects_per_hour, roams_per_hour) ==
    IF is_stable(disconnects_per_hour, roams_per_hour) THEN "Stable"
    ELSE IF is_moderate(disconnects_per_hour, roams_per_hour) THEN "Moderate"
    ELSE "Unstable (possible sticky client issue)"

\* what is printed for a host with events
host_roaming(h, host_events, roams, disconnects) ==
    [host |-> h, total |-> Len(host_events), roams |-> roams,
     disconnects |-> disconnects,
     stability |-> stability_of(per_hour(disconnects), per_hour(roams))]

RECURSIVE hosts_roaming(_, _)
hosts_roaming(hs, events) ==
    IF hs = <<>> THEN <<>>
    ELSE LET OfHost(e) == e._host = Head(hs)
             host_events == SelectSeq(events, OfHost)
         IN  (IF host_events = <<>> THEN <<>>
              ELSE <<host_roaming(Head(hs), host_events,
                         Cardinality({j \in DOMAIN host_events :
                                          host_events[j].event = "roam"}),
                         Cardinality({j \in DOMAIN host_events :
                                          host_events[j].event = "disconnect"}))>>)
                 \o hosts_roaming(Tail(hs), events)

roaming_of_logs(hs, events) ==
    IF events.raised # "none" THEN [exc |-> events.raised, hosts |-> <<>>]
    ELSE [exc |-> "none", hosts |-> hosts_roaming(hs, events.rows)]

\* cmd_roaming: the exception that ends it, or the hosts it prints
cmd_roaming(hs, event_files) == roaming_of_logs(hs, read_event_logs(hs, event_files))

EventLine(event) == [kind |-> "object", ts |-> Naive(100), event |-> event]

\* n lines of the same event
Repeated(event, n) == [j \in 1..n |-> EventLine(event)]

\* counts of events around the thresholds of 0.5, 1, 2 and 5 per hour
DisconnectCounts == {0, 11, 12, 47, 48}

RoamCounts == {0, 23, 24, 119, 120}

InitRoaming ==
    /\ pc = "start"
    /\ err = "none"
    /\ LogsIdle
    /\ ScorerIdle
    /\ report = <<>>
    /\ heap = <<>>
    /\ \E d \in DisconnectCounts, r \in RoamCounts, c \in {0, 1},
          other \in {<<>>, <<EventLine("roam")>>}, roams_first \in BOOLEAN :
           probe_files =
               [wifi_events |->
                    [h \in Hosts |->
                         IF h = "pi2" THEN other
                         ELSE IF roams_first
                         THEN Repeated("roam", r) \o Repeated("disconnect", d)
                                  \o Repeated("connect", c)
                         ELSE Repeated("disconnect", d) \o Repeated("connect", c)
                                  \o Repeated("roam", r)]]

\* analyze.py roaming
CmdRoaming ==
    /\ pc = "start"
    /\ \E hs \in list_host_dirs(probe_files.wifi_events) :
           Printed("cmd_roaming", cmd_roaming(hs, probe_files.wifi_events))

NextRoaming == CmdRoaming

SpecRoaming == InitRoaming /\ [][NextRoaming]_vars


(***************************************************************************)
(* The aggregators run again and again on a log directory.  report is the  *)
(* list of the runs made, each with the directories it found.  Between     *)
(* runs a host directory that holds no iperf.jsonl may be taken away.      *)
(***************************************************************************)
MaxRuns == 2        \* runs of an aggregator

\* iperf.jsonl of pi1: one or two runs, some of them with equal ts
RunsOfPi1 ==
    {<<GoodLine(Naive(100), "download")>>,
     <<GoodLine(Naive(100), "upload")>>,
     <<GoodLine(Naive(100), "download"), GoodLine(Naive(400), "upload")>>,
     <<GoodLine(Naive(400), "download"), GoodLine(Naive(100), "download")>>}

InitRuns ==
    /\ pc = "start"
    /\ err = "none"
    /\ \E own \in RunsOfPi1,
          other \in {<<>>, <<GoodLine(Naive(100), "download")>>,
                     <<GoodLine(Naive(100), "upload")>>} :
           iperf_files = [h \in Hosts |-> IF h = "pi1" THEN own ELSE other]
    /\ \E own \in {<<WifiRow(Naive(100), NamedAp)>>,
                   <<WifiRow(Naive(100), NamedAp), WifiRow(Naive(400), UnnamedAp)>>},
          other \in {<<>>, <<WifiRow(Naive(100), NamedAp)>>,
                     <<WifiRow(Naive(100), UnnamedAp)>>} :
           wifi_files = [h \in Hosts |-> IF h = "pi1" THEN own ELSE other]
    /\ probe_files = [ap_scan |-> NoFiles(Hosts)]
    /\ rows = <<>>
    /\ iperf_logs = <<>>
    /\ wifi_logs = <<>>
    /\ iperf_pos = 0
    /\ ap_throughput = <<>>
    /\ ScorerIdle
    /\ report = <<>>
    /\ heap = <<>>

\* a run ended: what it found under LOG_DIR and what it reported
Ran(cmd, exc, code, out) ==
    /\ Len(report) < MaxRuns
    /\ pc' = cmd
    /\ err' = exc
    /\ report' = Append(report,
                        [cmd |-> cmd, dirs |-> DOMAIN iperf_files,
                         no_iperf |-> {h \in DOMAIN iperf_files : iperf_files[h] = <<>>},
                         exit |-> exit_status(exc, code), out |-> out])
    /\ UNCHANGED <<heap, iperf_files, wifi_files, probe_files, rows, iperf_logs,
                   wifi_logs, iperf_pos, ap_throughput, signals, coverage>>

AnalyzedAgain(r) ==
    \E orders \in [DOMAIN ap_keys(r.ap_throughput) -> Orderings(DOMAIN iperf_files)] :
        Ran("backhaul_main", r.exc, r.exit,
            analyze_backhaul_quality(r.ap_throughput, orders))

\* backhaul_inference.py once more
BackhaulRun ==
    \E hs \in list_host_dirs(iperf_files) :
        AnalyzedAgain(backhaul_correlation(hs, iperf_files, wifi_files))

CoverageRan(r) == Ran("coverage_main", r.exc, 0, r)

\* coverage_gaps.py once more
CoverageRun ==
    \E hs \in list_host_dirs_excluding(wifi_files) :
        CoverageRan(analyze_coverage_gaps(hs, wifi_files, probe_files.ap_scan))

\* a host directory without iperf.jsonl is taken away between two runs
RemoveHostDir ==
    /\ report # <<>>
    /\ Len(report) < MaxRuns
    /\ \E h \in DOMAIN iperf_files :
           /\ iperf_files[h] = <<>>
           /\ iperf_files' = [d \in DOMAIN iperf_files \ {h} |-> iperf_files[d]]
           /\ wifi_files' = [d \in DOMAIN wifi_files \ {h} |-> wifi_files[d]]
           /\ probe_files' = [ap_scan |-> NoFiles(DOMAIN iperf_files \ {h})]
    /\ UNCHANGED <<heap, pc, err, report, rows, iperf_logs, wifi_logs, iperf_pos,
                   ap_throughput, signals, coverage>>

NextRuns == BackhaulRun \/ CoverageRun \/ RemoveHostDir

SpecRuns == InitRuns /\ [][NextRuns]_vars


(***************************************************************************)
(* The objects of a run.  A dict or a list of Python has an identity: heap *)
(* holds the objects in the order they were made, and the address of an    *)
(* object is its index.  val is the content of the object with the values  *)
(* that are str, int, float, bool or None; refs names, for every field     *)
(* whose value is a dict or a list, the address of that object.  A local   *)
(* that is dropped when its function returns is not kept.  The variable    *)
(* rows holds the lists the readers returned, each a list of addresses.    *)
(***************************************************************************)
\* a new object, made after the objects there are
alloc(h, val, refs) == Append(h, [val |-> val, refs |-> refs])

\* the text of a JSON array, where a line has one for its mode
ArrayMode == "[\"upload\"]"

\* the values of a JSON object that are objects themselves: the iperf result
\* and a mode that is an array
json_objects(obj) ==
    (IF obj.has_iperf
     THEN <<[field |-> "iperf",
             val |-> [recv_bps |-> obj.recv_bps, sent_bps |-> obj.sent_bps]]>>
     ELSE <<>>)
    \o (IF obj.mode = ArrayMode
        THEN <<[field |-> "mode", val |-> [items |-> <<"upload">>]]>>
        ELSE <<>>)

\* json.loads or DictReader for one record: the objects it holds, then the
\* record, which is the last object of the result
RECURSIVE load_record(_, _, _, _)
load_record(h, val, nested, refs) ==
    IF nested = <<>> THEN alloc(h, val, refs)
    ELSE load_record(alloc(h, Head(nested).val, {}), val, Tail(nested),
                     refs \cup {<<Head(nested).field, Len(h) + 1>>})

\* the records a reader returned, as objects: the values of a CSV row are
\* str, those of a JSON line can be objects
RECURSIVE load_records(_, _, _)
load_records(h, recs, is_json) ==
    IF recs = <<>> THEN [heap |-> h, at |-> <<>>]
    ELSE LET nested == IF is_json THEN json_objects(Head(recs)) ELSE <<>>
             rest   == load_records(load_record(h, Head(recs), nested, {}),
                                    Tail(recs), is_json)
         IN  [heap |-> rest.heap, at |-> <<Len(h) + Len(nested) + 1>> \o rest.at]

\* the contents of the objects at the addresses
contents(h, at) == [j \in DOMAIN at |-> h[at[j]].val]

\* failures.append({...}) of one loop of cmd_failures: a new dict for a row
\* that shows a failure, its values the str of the row and of the label
RECURSIVE failure_objects(_, _, _)
failure_objects(h, at, is_net) ==
    IF at = <<>> THEN [exc |-> "none", heap |-> h, at |-> <<>>]
    ELSE LET f == IF is_net THEN net_failure(h[Head(at)].val)
                  ELSE wan_failure(h[Head(at)].val)
         IN  IF f.exc # "none" THEN [exc |-> f.exc, heap |-> h, at |-> <<>>]
             ELSE IF f.add = <<>> THEN failure_objects(h, Tail(at), is_net)
             ELSE LET rest == failure_objects(alloc(h, f.add[1], {}), Tail(at), is_net)
                  IN  [exc |-> rest.exc, heap |-> rest.heap,
                       at |-> <<Len(h) + 1>> \o rest.at]

\* failures.sort(key=lambda f: f["ts"]): the list reordered, no dict touched
sort_objects(h, at) ==
    LET sorted == sort_rows([j \in DOMAIN at |-> [ts |-> h[at[j]].val.ts, at |-> at[j]]])
    IN  [exc |-> sorted.raised,
         at |-> [j \in DOMAIN sorted.rows |-> sorted.rows[j].at]]

\* cmd_failures from the rows read on: both loops, then the sort
classify_failures(h, net_at, wan_at) ==
    LET of_net == failure_objects(h, net_at, TRUE)
        of_wan == failure_objects(of_net.heap, wan_at, FALSE)
        sorted == sort_objects(of_wan.heap, of_net.at \o of_wan.at)
    IN  IF of_net.exc # "none" THEN [exc |-> of_net.exc, heap |-> of_net.heap, out |-> <<>>]
        ELSE IF of_wan.exc # "none"
        THEN [exc |-> of_wan.exc, heap |-> of_wan.heap, out |-> <<>>]
        ELSE [exc |-> sorted.exc, heap |-> of_wan.heap, out |-> sorted.at]

\* iperf lines with a mode that is a str or an array, beside a failed run
ModeLines ==
    {GoodLine(Naive(100), "download"), GoodLine(Naive(100), "upload"),
     GoodLine(Naive(100), ArrayMode), FailedLine(Naive(80))}

InitModes ==
    /\ \E ls \in SeqsFromTo(ModeLines, 1, MaxIperf) : iperf_files = OnlyPi1(ls)
    /\ \E ws \in SeqsFromTo({WifiRow(Naive(95), NamedAp), WifiRow(Naive(100), UnnamedAp)},
                            1, MaxWifi) :
           wifi_files = OnlyPi1(ws)
    /\ probe_files = [net_probe |-> NoFiles(Hosts), wan_probe |-> NoFiles(Hosts),
                      ap_scan |-> NoFiles(Hosts)]

InitObjects ==
    /\ pc = "start"
    /\ err = "none"
    /\ InitProbes \/ InitModes \/ InitSignals \/ InitScans
    /\ rows = <<>>
    /\ iperf_logs = <<>>
    /\ wifi_logs = <<>>
    /\ iperf_pos = 0
    /\ ap_throughput = <<>>
    /\ ScorerIdle
    /\ report = <<>>
    /\ heap = <<>>

\* a step of a command that is followed object by object
Followed(at, exc, h, lists, out) ==
    /\ pc' = at
    /\ err' = exc
    /\ heap' = h
    /\ rows' = lists
    /\ report' = out
    /\ UNCHANGED <<iperf_files, wifi_files, probe_files, iperf_logs, wifi_logs,
                   iperf_pos, ap_throughput, signals, coverage>>

\* the first exception of two readers
first_raised(a, b) == IF a.raised # "none" THEN a.raised ELSE b.raised

\* cmd_failures: read_csv_logs("net_probe.csv") and read_csv_logs("wan_probe.csv")
ReadProbeRows ==
    /\ pc = "start"
    /\ \E hs \in list_host_dirs(probe_files.net_probe) :
           LET net == read_probe_logs(hs, probe_files.net_probe)
               wan == read_probe_logs(hs, probe_files.wan_probe)
               n   == load_records(heap, net.rows, FALSE)
               w   == load_records(n.heap, wan.rows, FALSE)
           IN  Followed("read_probes", first_raised(net, wan), w.heap,
                       <<n.at, w.at>>, report)

\* cmd_failures: the two loops and the sort
ClassifyFailures ==
    /\ pc = "read_probes" /\ err = "none"
    /\ LET r == classify_failures(heap, rows[1], rows[2])
       IN  Followed("cmd_failures", r.exc, r.heap, rows, r.out)

\* the value a derived dict copies from the field of a record: where the
\* record holds an object there, the same object
copied(h, a, field) == {r \in h[a].refs : r[1] = field}

\* the loop of correlate_throughput_with_ap: the measurement appended for an
\* iperf record is a new dict that holds the record's throughput_mbps, mode,
\* _host and ts and the int of the wifi row's signal_dbm; m is what the body
\* of the loop gives for the first record, made what the records before made
RECURSIVE measurement_objects(_, _, _, _)
measured(h, iperf_at, wifi, made, m) ==
    IF m.exc # "none" THEN [exc |-> m.exc, heap |-> h, at |-> <<>>]
    ELSE IF m.add = <<>> THEN measurement_objects(h, Tail(iperf_at), wifi, made)
    ELSE measurement_objects(alloc(h, m.add[1], copied(h, Head(iperf_at), "mode")),
                             Tail(iperf_at), wifi, Append(made, Len(h) + 1))

measurement_objects(h, iperf_at, wifi, made) ==
    IF iperf_at = <<>> THEN [exc |-> "none", heap |-> h, at |-> made]
    ELSE measured(h, iperf_at, wifi, made, correlate_one(h[Head(iperf_at)].val, wifi))

\* a list object that holds the objects at the addresses
list_object(at) == [val |-> [items |-> at], refs |-> {<<"item", at[j]>> : j \in DOMAIN at}]

\* the lists of ap_throughput, one for each key in insertion order, each with
\* the measurements appended to it
RECURSIVE ap_lists(_, _, _)
ap_lists(h, keys, at) ==
    IF keys = <<>> THEN [heap |-> h, lists |-> <<>>]
    ELSE LET OfAp(a) == h[a].val.ap = Head(keys)
             rest    == ap_lists(Append(h, list_object(SelectSeq(at, OfAp))),
                                 Tail(keys), at)
         IN  [heap |-> rest.heap,
              lists |-> <<[ap |-> Head(keys), list |-> Len(h) + 1]>> \o rest.lists]

\* what correlate_throughput_with_ap returns: the measurements found and the
\* lists
correlated(found, lists) ==
    [exc |-> "none", heap |-> lists.heap, out |-> found.at, lists |-> lists.lists]

\* ap_throughput of the measurements found
with_ap_lists(found) ==
    IF found.exc # "none"
    THEN [exc |-> found.exc, heap |-> found.heap, out |-> <<>>, lists |-> <<>>]
    ELSE correlated(found, ap_lists(found.heap,
                                    ap_keys(contents(found.heap, found.at)), found.at))

\* correlate_throughput_with_ap on the lists the readers returned
correlate_objects(h, iperf_at, wifi_at) ==
    with_ap_lists(measurement_objects(h, iperf_at, contents(h, wifi_at), <<>>))

\* results.append({...}) for the entries in the order the sort leaves them:
\* a new dict with a new list of hosts and, as measurements, the list that
\* ap_throughput holds for the key
RECURSIVE entry_objects(_, _, _)
entry_objects(h, entries, lists) ==
    IF entries = <<>> THEN [heap |-> h, at |-> <<>>]
    ELSE LET e    == Head(entries)
             OfAp(l) == l.ap = e.ap_name
             hosts == [val |-> [items |-> e.hosts], refs |-> {}]
             entry == [val |-> [f \in DOMAIN e \ {"hosts", "measurements"} |-> e[f]],
                       refs |-> {<<"hosts", Len(h) + 1>>,
                                 <<"measurements", SelectSeq(lists, OfAp)[1].list>>}]
             rest == entry_objects(Append(Append(h, hosts), entry), Tail(entries), lists)
         IN  [heap |-> rest.heap, at |-> <<Len(h) + 2>> \o rest.at]

\* analyze_backhaul_quality on the measurements at the addresses
quality_objects(h, at, lists, orders) ==
    entry_objects(h, analyze_backhaul_quality(contents(h, at), orders), lists)

\* a step of main of backhaul_inference.py from the correlation on, which
\* leaves the lists of the readers as they are
Derived(at, exc, h, out, lists) ==
    /\ pc' = at
    /\ err' = exc
    /\ heap' = h
    /\ report' = out
    /\ ap_throughput' = lists
    /\ UNCHANGED <<iperf_files, wifi_files, probe_files, rows, iperf_logs, wifi_logs,
                   iperf_pos, signals, coverage>>

\* backhaul_inference.py main: read_iperf_logs() and read_wifi_logs()
ReadBackhaulLogs ==
    /\ pc = "start"
    /\ \E hs \in list_host_dirs(iperf_files) :
           LET iperf == read_iperf_logs(hs, iperf_files)
               wifi  == read_wifi_logs(hs, wifi_files)
               i     == load_records(heap, iperf.rows, TRUE)
               w     == load_records(i.heap, wifi.rows, FALSE)
           IN  Followed("read_backhaul", first_raised(iperf, wifi), w.heap,
                        <<i.at, w.at>>, report)

\* main: ap_throughput = correlate_throughput_with_ap(iperf_logs, wifi_logs),
\* reached when there are iperf logs
CorrelateObjects ==
    /\ pc = "read_backhaul" /\ err = "none"
    /\ rows[1] # <<>>
    /\ LET r == correlate_objects(heap, rows[1], rows[2])
       IN  Derived("correlate_throughput_with_ap", r.exc, r.heap, r.out, r.lists)

\* main: results = analyze_backhaul_quality(ap_throughput)
QualityObjects ==
    /\ pc = "correlate_throughput_with_ap" /\ err = "none"
    /\ \E orders \in [DOMAIN ap_throughput -> Orderings(DOMAIN iperf_files)] :
           LET r == quality_objects(heap, report, ap_throughput, orders)
           IN  Derived("analyze_backhaul_quality", "none", r.heap, r.at, ap_throughput)

\* dead_events.append({...}): the dict made for a wifi row; the files of the
\* model have no band column
dead_event(w) ==
    [ts |-> w.ts, signal |-> int_or_minus_100(w.signal_dbm).value,
     ap |-> scan_ap(w), band |-> ""]

\* all_dead_zone_events.append({...})
all_dead_zone_event(w) ==
    [host |-> w._host, ts |-> w.ts, signal |-> int_or_minus_100(w.signal_dbm).value]

\* the loop over host_wifi of analyze_coverage_gaps: two new dicts for every
\* row that is a dead-zone event, their values int and the str of the row
RECURSIVE dead_event_objects(_, _)
dead_event_objects(h, at) ==
    IF at = <<>> THEN [heap |-> h, at |-> <<>>]
    ELSE IF ~is_dead_event(h[Head(at)].val) THEN dead_event_objects(h, Tail(at))
    ELSE LET w    == h[Head(at)].val
             rest == dead_event_objects(
                         alloc(alloc(h, dead_event(w), {}), all_dead_zone_event(w), {}),
                         Tail(at))
         IN  [heap |-> rest.heap, at |-> <<Len(h) + 1, Len(h) + 2>> \o rest.at]

\* the coverage dict of a host with its breakdown and, where the host has
\* scans, its visible_aps, made after the n objects there are
coverage_dicts(e, n) ==
    IF e.visible_aps # <<>>
    THEN <<[val |-> e.breakdown, refs |-> {}],
           [val |-> [items |-> e.visible_aps], refs |-> {}],
           [val |-> [f \in DOMAIN e \ {"breakdown", "visible_aps", "best_ap"} |-> e[f]],
            refs |-> {<<"breakdown", n + 1>>, <<"visible_aps", n + 2>>}]>>
    ELSE <<[val |-> e.breakdown, refs |-> {}],
           [val |-> [f \in DOMAIN e \ {"breakdown", "visible_aps", "best_ap"} |-> e[f]],
            refs |-> {<<"breakdown", n + 1>>}]>>

\* the objects of one host: events is what the loop over host_wifi made
host_objects(e, events) ==
    [heap |-> events.heap \o coverage_dicts(e, Len(events.heap)),
     at |-> Append(events.at,
                   Len(events.heap) + (IF e.visible_aps # <<>> THEN 3 ELSE 2))]

\* the rows of the host among the rows at the addresses
rows_of_host(h, at, host) ==
    LET OfHost(a) == h[a].val._host = host
    IN  SelectSeq(at, OfHost)

\* the body of the loop over hosts for the hosts that get an entry: the dead
\* zone events, then the coverage dict; made is what the hosts before made
RECURSIVE coverage_objects(_, _, _, _)
next_host(o, entries, wifi_at, made) ==
    coverage_objects(o.heap, entries, wifi_at, made \o o.at)

coverage_objects(h, entries, wifi_at, made) ==
    IF entries = <<>> THEN [exc |-> "none", heap |-> h, at |-> made]
    ELSE next_host(host_objects(Head(entries),
                                dead_event_objects(h, rows_of_host(h, wifi_at,
                                                                   Head(entries).host))),
                   Tail(entries), wifi_at, made)

\* analyze_coverage_gaps from the rows read on, per being what the loop over
\* hosts computes
coverage_of_rows(h, per, wifi_at) ==
    IF per.exc # "none" THEN [exc |-> per.exc, heap |-> h, at |-> <<>>]
    ELSE coverage_objects(h, per.add, wifi_at, <<>>)

analyze_coverage_objects(h, hs, wifi_at, scan_at) ==
    coverage_of_rows(h, hosts_coverage(hs, contents(h, wifi_at), contents(h, scan_at)),
                     wifi_at)

\* analyze_coverage_gaps: read_csv_logs("wifi_probe.csv") and
\* read_csv_logs("ap_scan.csv")
ReadCoverageLogs ==
    /\ pc = "start"
    /\ \E hs \in list_host_dirs_excluding(wifi_files) :
           LET wifi  == read_csv_logs(hs, wifi_files)
               scans == read_probe_logs(hs, probe_files.ap_scan)
               w     == load_records(heap, wifi.rows, FALSE)
               s     == load_records(w.heap, scans.rows, FALSE)
           IN  Followed("read_coverage", first_raised(wifi, scans), s.heap,
                        <<w.at, s.at>>, report)

\* analyze_coverage_gaps: the loop over hosts
AnalyzeCoverage ==
    /\ pc = "read_coverage" /\ err = "none"
    /\ \E hs \in list_host_dirs_excluding(wifi_files) :
           LET r == analyze_coverage_objects(heap, hs, rows[1], rows[2])
           IN  Followed("analyze_coverage_gaps", r.exc, r.heap, rows, r.at)

NextObjects ==
    \/ ReadProbeRows
    \/ ClassifyFailures
    \/ ReadBackhaulLogs
    \/ CorrelateObjects
    \/ QualityObjects
    \/ ReadCoverageLogs
    \/ AnalyzeCoverage

SpecObjects == InitObjects /\ [][NextObjects]_vars


(***************************************************************************)
(* Claims about correlate_throughput_with_ap, checked under SpecBackhaul.  *)
(***************************************************************************)
IsTime(ts) == ts.kind \in {"naive", "utc"}

\* the iperf record whose turn it is
Turn == iperf_logs[iperf_pos]

Eligible(ip) == ip.ok /\ ip.throughput_mbps # 0

\* the wifi records of the same host whose distance to ip is defined
Candidates(ip) ==
    {j \in DOMAIN wifi_logs :
        /\ wifi_logs[j]._host = ip._host
        /\ IsTime(ip.ts) /\ IsTime(wifi_logs[j].ts)
        /\ ip.ts.kind = wifi_logs[j].ts.kind}

Gap(ip, j) == Abs(ip.ts.t - wifi_logs[j].ts.t)

\* the smallest gap to a same-host wifi record is at most g
NearestWithin(ip, g) == \E j \in Candidates(ip) : Gap(ip, j) <= g

\* the first of the same-host wifi records at the smallest gap
Nearest(ip) ==
    CHOOSE j \in Candidates(ip) :
        \A k \in Candidates(ip) :
            Gap(ip, j) < Gap(ip, k) \/ (Gap(ip, j) = Gap(ip, k) /\ j <= k)

\* a turn of the loop that ended without an exception
Stepped == pc = "correlate" /\ pc' = "correlate" /\ iperf_pos' = iperf_pos + 1

\* that turn reported a correlation
Appended == Len(ap_throughput') = Len(ap_throughput) + 1

ReportedAp(w) ==
    IF w.ap_name # "" THEN w.ap_name ELSE IF w.bssid # "" THEN w.bssid ELSE "unknown"

\* measurement m pairs iperf record ip with wifi record w
Pairs(m, ip, w) ==
    /\ m.host = ip._host /\ m.ts = ip.ts
    /\ m.throughput_mbps = ip.throughput_mbps
    /\ m.ap = ReportedAp(w)
    /\ m.signal_dbm = (IF w.signal_dbm.k = "int" THEN w.signal_dbm ELSE NoSignal)

\* C1: an iperf record with ok set and non-zero throughput is correlated
\* exactly when its nearest same-host wifi record is at most 300 seconds away.
C1_CorrelatedIffWithin300 ==
    [][(Stepped /\ Eligible(Turn)) => (Appended <=> NearestWithin(Turn, 300))]_vars

\* C2: a measurement pairs the iperf record with a wifi record of the same host
\* at most 300 seconds away, and none is reported when the nearest same-host
\* record is further away (or there is none).
C2_SameHostWithinGap ==
    [][Stepped =>
          /\ Appended =>
                 \E j \in Candidates(Turn) :
                     /\ Gap(Turn, j) <= 300
                     /\ Pairs(ap_throughput'[Len(ap_throughput')], Turn, wifi_logs[j])
          /\ ~NearestWithin(Turn, 300) => ~Appended]_vars

\* a record was skipped though a wifi record of the other host is at its instant
C2_Witness ==
    /\ pc = "correlated" /\ err = "none"
    /\ Len(iperf_logs) = 1 /\ Eligible(iperf_logs[1])
    /\ ap_throughput = <<>>
    /\ Candidates(iperf_logs[1]) # {}
    /\ \E j \in DOMAIN wifi_logs :
           /\ wifi_logs[j]._host # iperf_logs[1]._host
           /\ wifi_logs[j].ts = iperf_logs[1].ts

\* C3: the measurement carries the AP name and signal of the same-host wifi
\* record at the smallest distance, the first in wifi_logs among equals.
C3_NearestFirstWins ==
    [][(Stepped /\ Appended) =>
          /\ Candidates(Turn) # {}
          /\ Pairs(ap_throughput'[Len(ap_throughput')], Turn,
                   wifi_logs[Nearest(Turn)])]_vars

\* two same-host records of different APs, 5 s before and 5 s after the
\* measurement: the one that comes first in wifi_logs is reported
C3_Witness ==
    /\ pc = "correlated" /\ err = "none"
    /\ Len(iperf_logs) = 1 /\ iperf_logs[1].ts = Naive(100)
    /\ Len(ap_throughput) = 1
    /\ \E j, k \in Candidates(iperf_logs[1]) :
           /\ j < k
           /\ wifi_logs[j].ts = Naive(95) /\ wifi_logs[k].ts = Naive(105)
           /\ ReportedAp(wifi_logs[j]) # ReportedAp(wifi_logs[k])
           /\ ap_throughput[1].ap = ReportedAp(wifi_logs[j])

\* the iperf records the join reports when unusable pairings are skipped
Joinable ==
    {k \in DOMAIN iperf_logs :
        /\ Eligible(iperf_logs[k])
        /\ \E j \in Candidates(iperf_logs[k]) : Gap(iperf_logs[k], j) < 300}

\* C4: the join never raises on a ts that is missing, not text, unparseable or
\* of the other zone kind; the pairing is skipped and the join goes on.
C4_NeverRaisesOnBadTs ==
    /\ pc = "correlate" => err = "none"
    /\ pc = "correlated" => Len(ap_throughput) = Cardinality(Joinable)

\* the second half alone: holds of the runs that end
C4_SkipsWhenNotRaising ==
    pc = "correlated" => Len(ap_throughput) = Cardinality(Joinable)

(***************************************************************************)
(* Claims about the readers, checked under SpecReaders.                    *)
(***************************************************************************)
IsCsvRead == pc \in {"read_csv_logs", "read_wifi_logs"}
IsJsonRead == pc \in {"read_jsonl_logs", "read_iperf_logs"}

IsObject(line) == line.kind = "object"

\* the records of host h in the stream that was read
InputRecords(h) ==
    IF IsCsvRead THEN wifi_files[h] ELSE SelectSeq(iperf_files[h], IsObject)

\* every ts of the stream is text, or is left out
TsAreText == \A h \in Hosts : \A j \in DOMAIN InputRecords(h) :
                 InputRecords(h)[j].ts.kind # "null"

\* every line of the stream is an object or is no JSON at all
NoScalarLine == \A h \in Hosts : \A j \in DOMAIN iperf_files[h] :
                    iperf_files[h][j].kind # "scalar"

\* the ts text a is not after the ts text b: "" before any timestamp, a
\* timestamp before its own text with a Z appended, "N/A" after timestamps
TsTextRank(ts) == CASE ts.kind = "absent" -> 0
                    [] ts.kind \in {"naive", "utc"} -> 1
                    [] OTHER -> 2

TsTextNotAfter(a, b) ==
    \/ TsTextRank(a) < TsTextRank(b)
    \/ TsTextRank(a) = TsTextRank(b) /\ TsTextRank(a) # 1
    \/ /\ TsTextRank(a) = 1 /\ TsTextRank(b) = 1
       /\ \/ a.t < b.t
          \/ a.t = b.t /\ (a.kind = "naive" \/ b.kind = "utc")

NonDecreasingByTs ==
    \A j, k \in DOMAIN rows : j < k => TsTextNotAfter(rows[j].ts, rows[k].ts)

\* row is the record rec with the host added
SameRecord(row, rec) ==
    /\ row.ts = rec.ts
    /\ IF IsCsvRead
       THEN /\ row.ap_name = rec.ap_name /\ row.bssid = rec.bssid
            /\ row.signal_dbm = rec.signal_dbm
       ELSE /\ row.ok = rec.ok /\ row.mode = rec.mode
            /\ row.has_iperf = rec.has_iperf
            /\ row.recv_bps = rec.recv_bps /\ row.sent_bps = rec.sent_bps

Reorderings(n) ==
    {p \in [1..n -> 1..n] : \A j, k \in 1..n : j # k => p[j] # p[k]}

\* the rows tagged h are the records of h, each once, those of equal ts in
\* the order of the file
MergedFrom(h) ==
    LET OfHost(r) == r._host = h
        out == SelectSeq(rows, OfHost)
        inp == InputRecords(h)
    IN  /\ Len(out) = Len(inp)
        /\ \E p \in Reorderings(Len(inp)) :
               /\ \A j \in DOMAIN out : SameRecord(out[j], inp[p[j]])
               /\ \A j, k \in DOMAIN out :
                      (j < k /\ out[j].ts = out[k].ts) => p[j] < p[k]

EveryRecordOnce ==
    /\ \A j \in DOMAIN rows : rows[j]._host \in Hosts
    /\ \A h \in Hosts : MergedFrom(h)

\* C9: what a reader returns for per-host records with text timestamps is
\* non-decreasing by ts, holds every input record once with its host, and
\* keeps same-host records of equal ts in file order.
C9_MergedSortedStable ==
    ((IsCsvRead \/ (IsJsonRead /\ NoScalarLine)) /\ TsAreText) =>
        /\ err = "none"
        /\ NonDecreasingByTs
        /\ EveryRecordOnce

\* both files out of order between them, one with two runs at one instant
C9_Witness ==
    /\ pc = "read_iperf_logs" /\ err = "none"
    /\ iperf_files["pi1"] = <<GoodLine(Naive(100), "download"),
                              GoodLine(Naive(100), "upload")>>
    /\ iperf_files["pi2"] = <<GoodLine(Naive(100), "download"),
                              FailedLine(Naive(80))>>
    /\ Len(rows) = 4
    /\ rows[1]._host = "pi2" /\ rows[1].ts = Naive(80)
    /\ \E j, k \in DOMAIN rows :
           /\ j < k
           /\ rows[j]._host = "pi1" /\ rows[j].mode = "download"
           /\ rows[k]._host = "pi1" /\ rows[k].mode = "upload"

\* C10: a line that is torn, empty, no JSON, or JSON but no object is skipped
\* alone: the read does not fail and every object line of every host is
\* returned.
C10_BadLineSkippedAlone ==
    (IsJsonRead /\ TsAreText) => (err = "none" /\ EveryRecordOnce)

(***************************************************************************)
(* Claims about calculate_coverage_score, checked under SpecScore.         *)
(***************************************************************************)
Scored == pc = "done" /\ signals # <<>>

\* the weight of one signal in the score, dead samples penalised twice
SignalPoints(s) ==
    IF s >= -50 THEN 100
    ELSE IF s >= -60 THEN 80
    ELSE IF s >= -70 THEN 60
    ELSE IF s >= -75 THEN 30
    ELSE 0 - 100

RECURSIVE TotalPoints(_)
TotalPoints(sigs) ==
    IF sigs = <<>> THEN 0 ELSE SignalPoints(Head(sigs)) + TotalPoints(Tail(sigs))

\* Len(sigs) times the clamped score
ClampedPoints(sigs) ==
    LET n == TotalPoints(sigs)
    IN  IF n < 0 THEN 0 ELSE IF n > 100 * Len(sigs) THEN 100 * Len(sigs) ELSE n

\* C5 as stated: the returned score is exactly the clamped weighted mean minus
\* the dead percentage, it lies in [0,100], and the five-band example scores 34.
C5_ScoreIsExactFormula ==
    Scored =>
        /\ coverage.score * Len(signals) = 10 * ClampedPoints(signals)
        /\ coverage.score >= 0 /\ coverage.score <= 1000
        /\ signals = ScorerExample => coverage.score = 340

\* C5 amended: the returned score is that value rounded to one decimal place
\* (at most 0.05 away from it), it lies in [0,100], and the example scores 34.
C5_ScoreIsRoundedFormula ==
    Scored =>
        /\ 2 * Abs(coverage.score * Len(signals) - 10 * ClampedPoints(signals))
               <= Len(signals)
        /\ coverage.score >= 0 /\ coverage.score <= 1000
        /\ signals = ScorerExample => coverage.score = 340

C5_Witness ==
    /\ pc = "done"
    /\ signals = ScorerExample
    /\ coverage.score = 340
    /\ coverage.breakdown.dead_zone = 1

\* C6: the five counts are the numbers of signals in [-50,..), [-60,-50),
\* [-70,-60), [-75,-70) and (..,-75), and they sum to the number of signals.
C6_BandsPartition ==
    Scored =>
        LET b == coverage.breakdown
            n(lo, hi) == Cardinality({i \in DOMAIN signals :
                                         lo <= signals[i] /\ signals[i] < hi})
        IN  /\ b.excellent = n(-50, 1)
            /\ b.good = n(-60, -50)
            /\ b.fair = n(-70, -60)
            /\ b.weak = n(-75, -70)
            /\ b.dead_zone = n(-200, -75)
            /\ b.excellent + b.good + b.fair + b.weak + b.dead_zone = Len(signals)

C6_Witness ==
    /\ pc = "done"
    /\ signals = <<-50, -60, -70, -75, -76>>
    /\ coverage.breakdown = [excellent |-> 1, good |-> 1, fair |-> 1,
                             weak |-> 1, dead_zone |-> 1]

\* the rating the thresholds give a score held in tenths
RatingOfTenths(t) ==
    IF t >= 900 THEN "Excellent"
    ELSE IF t >= 750 THEN "Good"
    ELSE IF t >= 500 THEN "Fair"
    ELSE IF t >= 250 THEN "Poor"
    ELSE "Critical"

\* C7: the returned rating is the one the thresholds 90/75/50/25 give the
\* returned score.
C7_RatingFollowsScore ==
    Scored => coverage.rating = RatingOfTenths(coverage.score)

\* C8: an empty list yields score 0 and rating "No Data", with no exception.
C8_EmptyIsNoData ==
    (pc # "start" /\ signals = <<>>) =>
        /\ pc = "done"
        /\ err = "none"
        /\ coverage.score = 0
        /\ coverage.rating = "No Data"

C8_Witness ==
    /\ pc = "done"
    /\ signals = <<>>
    /\ coverage.rating = "No Data"


(***************************************************************************)
(* Claims about the commands, checked under SpecCommands.                  *)
(***************************************************************************)
\* some record of the directory has a numeric field that is no number
HasUnparsableNumber ==
    \/ \E h \in DOMAIN wifi_files : \E j \in DOMAIN wifi_files[h] :
           wifi_files[h][j].signal_dbm.k = "text"
    \/ \E h \in DOMAIN probe_files.net_probe :
           \E j \in DOMAIN probe_files.net_probe[h] :
               \/ probe_files.net_probe[h][j].wan_loss_pct.k = "text"
               \/ probe_files.net_probe[h][j].gw_loss_pct.k = "text"

\* C11: a record with an unparsable numeric field is dropped and never aborts
\* cmd_summary, cmd_failures, analyze_coverage_gaps or
\* correlate_throughput_with_ap: the command ends without an exception.
C11_UnparsableNumberNeverAborts ==
    (/\ pc \in {"cmd_summary", "cmd_failures", "coverage_main", "backhaul_main"}
     /\ HasUnparsableNumber)
        => err = "none"


\* the hosts whose records the report of the finished command shows
ReportedHosts ==
    CASE pc = "cmd_summary" -> {report.out.wifi[i].host : i \in DOMAIN report.out.wifi}
      [] pc = "cmd_failures" ->
             {report.out.failures[i].host : i \in DOMAIN report.out.failures}
      [] pc = "cmd_timeline" ->
             {report.out.events[i].host : i \in DOMAIN report.out.events}
      [] pc = "coverage_main" ->
             {report.out.hosts[i].host : i \in DOMAIN report.out.hosts}
      [] pc = "backhaul_main" ->
             UNION {{report.out[i].hosts[j] : j \in DOMAIN report.out[i].hosts} :
                        i \in DOMAIN report.out}
      [] OTHER -> {}

\* C12: host discovery never returns failures, snapshots or archive, so no
\* record found under those directories enters a report.
C12_ReservedNamesNeverReported == ReportedHosts \cap ReservedNames = {}


\* the rows of wifi_probe.csv of host h that carry a signal below limit
SignalsBelow(h, limit) ==
    {j \in DOMAIN wifi_files[h] :
         /\ wifi_files[h][j].signal_dbm.k = "int"
         /\ wifi_files[h][j].signal_dbm.v < limit}

\* C13: a wifi record is a dead-zone event exactly when it carries a signal
\* below -80 dBm and a weak-signal event exactly when it carries a signal
\* below -75 dBm; a record without a signal is neither.  So the dead-zone
\* events counted for a host are as many as its records with a signal below
\* -80, and the weak-signal events the timeline shows for a host are no more
\* than its records with a signal below -75.
C13_EventsAreSignalsBelowThreshold ==
    /\ (pc = "coverage_main" /\ err = "none") =>
           \A i \in DOMAIN report.out.hosts :
               report.out.hosts[i].dead_zone_events =
                   Cardinality(SignalsBelow(report.out.hosts[i].host, -80))
    /\ (pc = "cmd_timeline" /\ err = "none") =>
           \A h \in DOMAIN wifi_files :
               Cardinality({i \in DOMAIN report.out.events :
                                /\ report.out.events[i].kind = "Weak signal"
                                /\ report.out.events[i].host = h})
                   <= Cardinality(SignalsBelow(h, -75))


\* the causes of failure a net_probe row shows
Causes(row) ==
    {c \in {"gateway", "WAN", "DNS"} :
         \/ c = "WAN" /\ row.wan_loss_pct = NumText(100)
         \/ c = "gateway" /\ row.gw_loss_pct = NumText(100)
         \/ c = "DNS" /\ row.dns_ok = "0"}

Labels(f) == {f.type[k] : k \in DOMAIN f.type}

\* the rows of host h in the files of a probe that show failure f
RowsShowing(f) ==
    IF f.source = "net_probe"
    THEN {j \in DOMAIN probe_files.net_probe[f.host] :
              /\ probe_files.net_probe[f.host][j].ts = f.ts
              /\ Causes(probe_files.net_probe[f.host][j]) = Labels(f)}
    ELSE {j \in DOMAIN probe_files.wan_probe[f.host] :
              /\ probe_files.wan_probe[f.host][j].ts = f.ts
              /\ probe_files.wan_probe[f.host][j].all_down = "1"}

\* C14: cmd_failures emits one failure for each net_probe record whose WAN
\* loss is 100, gateway loss is 100 or DNS flag is "0", and for no other; its
\* type names exactly the causes that hold and is never empty; it emits one
\* complete-outage failure for each wan_probe record whose all_down is "1";
\* the failures are in non-decreasing order of timestamp.
C14_FailuresAreTheFailedProbes ==
    (pc = "cmd_failures" /\ err = "none") =>
        LET failures == report.out.failures
        IN  /\ \A i \in DOMAIN failures :
                   /\ Labels(failures[i]) # {}
                   /\ Len(failures[i].type) = Cardinality(Labels(failures[i]))
                   /\ failures[i].source = "wan_probe" =>
                          failures[i].type = <<"complete WAN outage">>
                   /\ Cardinality({k \in DOMAIN failures : failures[k] = failures[i]})
                          = Cardinality(RowsShowing(failures[i]))
            /\ \A h \in DOMAIN probe_files.net_probe :
                   \A j \in DOMAIN probe_files.net_probe[h] :
                       LET row == probe_files.net_probe[h][j]
                       IN  Causes(row) # {} =>
                               \E i \in DOMAIN failures :
                                   /\ failures[i].source = "net_probe"
                                   /\ failures[i].host = h
                                   /\ failures[i].ts = row.ts
                                   /\ Labels(failures[i]) = Causes(row)
            /\ \A h \in DOMAIN probe_files.wan_probe :
                   \A j \in DOMAIN probe_files.wan_probe[h] :
                       LET row == probe_files.wan_probe[h][j]
                       IN  row.all_down = "1" =>
                               \E i \in DOMAIN failures :
                                   /\ failures[i].source = "wan_probe"
                                   /\ failures[i].host = h
                                   /\ failures[i].ts = row.ts
            /\ \A i, k \in DOMAIN failures :
                   i < k => ~ts_key_less(failures[k].ts, failures[i].ts)

\* a later row listed before an earlier one, all three causes at once, and a
\* complete outage between them
C14_Witness ==
    /\ pc = "cmd_failures" /\ err = "none"
    /\ Len(report.out.failures) = 3
    /\ "pi1" \in DOMAIN probe_files.net_probe
    /\ Len(probe_files.net_probe["pi1"]) = 2
    /\ probe_files.net_probe["pi1"][1].ts = Naive(100)
    /\ report.out.failures[1].ts = Naive(80)
    /\ report.out.failures[1].type = <<"WAN">>
    /\ report.out.failures[2].source = "wan_probe"
    /\ report.out.failures[3].type = <<"gateway", "WAN", "DNS">>


(***************************************************************************)
(* Claims about analyze_backhaul_quality, checked under SpecQuality.       *)
(***************************************************************************)
\* the measurements of an AP, and their sum
SamplesOf(ap) == {j \in DOMAIN ap_throughput : ap_throughput[j].ap = ap}

RECURSIVE ThroughputSum(_)
ThroughputSum(samples) ==
    IF samples = {} THEN 0
    ELSE LET j == CHOOSE k \in samples : TRUE
         IN  ap_throughput[j].throughput_mbps + ThroughputSum(samples \ {j})

\* the quality the thresholds give to a mean of total / count
QualityOfMean(total, count) ==
    IF total < 20 * count THEN "Poor"
    ELSE IF total < 50 * count THEN "Fair"
    ELSE IF total < 100 * count THEN "Good"
    ELSE "Excellent"

\* C15: analyze_backhaul_quality returns one entry per AP with at least one
\* measurement; its quality is Poor for a mean below 20, Fair from 20 to below
\* 50, Good from 50 to below 100, Excellent from 100; min <= mean <= max;
\* sample_count is the number of measurements of the AP; the list is in
\* non-decreasing order of mean throughput.
C15_QualityEntries ==
    pc = "analyze_backhaul_quality" =>
        LET results == report.out
        IN  /\ {results[i].ap_name : i \in DOMAIN results}
                   = {ap_throughput[j].ap : j \in DOMAIN ap_throughput}
            /\ \A i, k \in DOMAIN results :
                   results[i].ap_name = results[k].ap_name => i = k
            /\ \A i \in DOMAIN results :
                   LET samples == SamplesOf(results[i].ap_name)
                       avg     == results[i].avg_throughput_mbps
                   IN  /\ results[i].sample_count = Cardinality(samples)
                       /\ results[i].quality =
                              QualityOfMean(ThroughputSum(samples), Cardinality(samples))
                       /\ \A j \in samples :
                              /\ results[i].min_throughput_mbps
                                     <= ap_throughput[j].throughput_mbps
                              /\ ap_throughput[j].throughput_mbps
                                     <= results[i].max_throughput_mbps
                       /\ ~FLess(avg, FloatOfInt(results[i].min_throughput_mbps))
                       /\ ~FLess(FloatOfInt(results[i].max_throughput_mbps), avg)
            /\ \A i, k \in DOMAIN results :
                   i < k => ~FLess(results[k].avg_throughput_mbps,
                                   results[i].avg_throughput_mbps)

\* the AP measured first has the higher mean and is listed last; the other
\* has a mean of 19.5 from two measurements
C15_Witness ==
    /\ pc = "analyze_backhaul_quality"
    /\ Len(report.out) = 2
    /\ ap_throughput[1].ap = report.out[2].ap_name
    /\ report.out[2].quality = "Excellent"
    /\ report.out[1].quality = "Poor"
    /\ report.out[1].sample_count = 2
    /\ report.out[1].min_throughput_mbps = 19
    /\ report.out[1].max_throughput_mbps = 20


\* the scan records of host h show it connected to one AP, and every record
\* carries a signal
HasConnectedAp(h) ==
    LET scans == probe_files.ap_scan[h]
    IN  /\ Cardinality({scans[c].ap_name : c \in {j \in DOMAIN scans :
                             scans[j].is_connected = "1"}}) = 1
        /\ \A j \in DOMAIN scans : scans[j].signal_dbm.k = "int"

\* a scan record of host h shows another AP more than 5 dBm above a record of
\* the connected one
StrongerApVisible(h) ==
    LET scans == probe_files.ap_scan[h]
    IN  \E c, v \in DOMAIN scans :
            /\ scans[c].is_connected = "1"
            /\ scans[v].ap_name # scans[c].ap_name
            /\ scans[c].signal_dbm.k = "int"
            /\ scans[v].signal_dbm.k = "int"
            /\ scans[v].signal_dbm.v > scans[c].signal_dbm.v + 5

\* C16: for a host with a connected AP in its scan records, the sticky-client
\* condition is flagged exactly when a visible AP other than the connected one
\* has a signal more than 5 dBm above the connected AP's signal; this holds
\* for what cmd_visibility prints and for the host entries of
\* analyze_coverage_gaps.
C16_StickyClientFlagged ==
    /\ (pc = "cmd_visibility" /\ err = "none") =>
           \A i \in DOMAIN report.out.add :
               HasConnectedAp(report.out.add[i].host) =>
                   (report.out.add[i].sticky <=> StrongerApVisible(report.out.add[i].host))
    /\ (pc = "coverage_main" /\ err = "none") =>
           \A i \in DOMAIN report.out.hosts :
               (/\ report.out.hosts[i].host \in DOMAIN probe_files.ap_scan
                /\ HasConnectedAp(report.out.hosts[i].host)
                /\ StrongerApVisible(report.out.hosts[i].host))
                   => "sticky_client" \in DOMAIN report.out.hosts[i]


(***************************************************************************)
(* Claims about cmd_roaming, checked under SpecRoaming.                    *)
(***************************************************************************)
\* the lines of wifi_events.jsonl of host h that record the event
EventsOf(h, event) ==
    {j \in DOMAIN probe_files.wifi_events[h] :
         probe_files.wifi_events[h][j].event = event}

\* C17: for each host with events cmd_roaming divides the disconnect and roam
\* counts by 24 hours and prints Stable for fewer than 12 disconnects and
\* fewer than 24 roams, otherwise Moderate for fewer than 48 and fewer than
\* 120, otherwise Unstable: one class per host.
C17_StabilityByRates ==
    (pc = "cmd_roaming" /\ err = "none") =>
        /\ {report.out.hosts[i].host : i \in DOMAIN report.out.hosts}
               = {h \in Hosts : probe_files.wifi_events[h] # <<>>}
        /\ \A i, k \in DOMAIN report.out.hosts :
               report.out.hosts[i].host = report.out.hosts[k].host => i = k
        /\ \A i \in DOMAIN report.out.hosts :
               LET d == Cardinality(EventsOf(report.out.hosts[i].host, "disconnect"))
                   r == Cardinality(EventsOf(report.out.hosts[i].host, "roam"))
               IN  report.out.hosts[i].stability =
                       IF d < 12 /\ r < 24 THEN "Stable"
                       ELSE IF d < 48 /\ r < 120 THEN "Moderate"
                       ELSE "Unstable (possible sticky client issue)"

\* 12 disconnects are 0.5 per hour: no longer Stable; a second host has a
\* single roam and is Stable
C17_Witness ==
    /\ pc = "cmd_roaming" /\ err = "none"
    /\ Len(report.out.hosts) = 2
    /\ \E i \in DOMAIN report.out.hosts :
           /\ report.out.hosts[i].disconnects = 12
           /\ report.out.hosts[i].roams = 23
           /\ report.out.hosts[i].stability = "Moderate"
    /\ \E i \in DOMAIN report.out.hosts :
           /\ report.out.hosts[i].roams = 1
           /\ report.out.hosts[i].stability = "Stable"


(***************************************************************************)
(* Claims about repeated runs of the aggregators, checked under SpecRuns.  *)
(***************************************************************************)
\* the hosts named in the AP entries of a run of backhaul_inference.py
HostsOfEntries(run) ==
    UNION {{run.out[i].hosts[j] : j \in DOMAIN run.out[i].hosts} : i \in DOMAIN run.out}

\* C18: a host directory without an iperf file is in the hosts of no AP entry,
\* does not make the run fail, and leaves the AP entries as they are in a run
\* made after the directory is taken away.
C18_HostWithoutIperfLeftOut ==
    /\ \A i \in DOMAIN report :
           (report[i].cmd = "backhaul_main" /\ report[i].no_iperf # {}) =>
               /\ report[i].exit = 0
               /\ HostsOfEntries(report[i]) \cap report[i].no_iperf = {}
    /\ \A i, k \in DOMAIN report :
           (/\ i < k
            /\ report[i].cmd = "backhaul_main"
            /\ report[k].cmd = "backhaul_main"
            /\ report[i].no_iperf # {}
            /\ report[k].dirs = report[i].dirs \ report[i].no_iperf)
               => report[k].out = report[i].out

\* a run with the directory of pi2, which has wifi records and no iperf file,
\* and a run without it; both report two APs
C18_Witness ==
    /\ Len(report) = 2
    /\ report[1].cmd = "backhaul_main"
    /\ report[2].cmd = "backhaul_main"
    /\ report[1].dirs = {"pi1", "pi2"}
    /\ report[1].no_iperf = {"pi2"}
    /\ report[2].dirs = {"pi1"}
    /\ Len(report[1].out) = 2
    /\ Len(report[2].out) = 2

\* C20: running an aggregator again on the unchanged log directory gives the
\* same report: the same entries in the same order, each with its hosts in the
\* same order.
C20_RerunGivesSameReport ==
    \A i, k \in DOMAIN report :
        (report[i].cmd = report[k].cmd /\ report[i].dirs = report[k].dirs)
            => report[i].out = report[k].out


\* no host directory holds a record in the files
NoRecords(files) == \A h \in DOMAIN files : files[h] = <<>>

\* LOG_DIR does not exist or holds no log the finished command reads
NoRelevantLogs ==
    CASE pc = "cmd_summary" -> /\ NoRecords(probe_files.net_probe)
                               /\ NoRecords(wifi_files)
                               /\ NoRecords(probe_files.wan_probe)
      [] pc = "cmd_failures" -> /\ NoRecords(probe_files.net_probe)
                                /\ NoRecords(probe_files.wan_probe)
      [] pc = "cmd_timeline" -> NoRecords(probe_files.net_probe) /\ NoRecords(wifi_files)
      [] pc = "cmd_visibility" -> NoRecords(probe_files.ap_scan)
      [] pc = "coverage_main" -> NoRecords(wifi_files)
      [] pc = "backhaul_main" -> NoRecords(iperf_files)
      [] OTHER -> FALSE

\* C19: every command ends with a non-zero exit status when the log directory
\* does not exist or holds no relevant logs for it, and with status zero
\* otherwise (for a command that ends without an exception).
C19_ExitStatusTellsNoLogs ==
    (pc # "start" /\ err = "none") => (report.exit # 0 <=> NoRelevantLogs)


\* C22: in the per-host result of analyze_coverage_gaps the dead_zone_events
\* count never exceeds the breakdown's dead_zone count, for any wifi records,
\* records with an empty signal_dbm included.
C22_DeadEventsWithinDeadBand ==
    (pc = "coverage_main" /\ err = "none") =>
        \A i \in DOMAIN report.out.hosts :
            report.out.hosts[i].dead_zone_events
                <= report.out.hosts[i].breakdown.dead_zone


\* the records the readers returned
RecordsRead == UNION {{rows[l][j] : j \in DOMAIN rows[l]} : l \in DOMAIN rows}

\* a record and the objects that are values of its fields
OwnedBy(r) == {r} \cup {p[2] : p \in heap[r].refs}

\* the objects reached from the objects at the addresses
RECURSIVE ReachedFrom(_)
ReachedFrom(at) ==
    LET more == at \cup {p[2] : p \in UNION {heap[a].refs : a \in at}}
    IN  IF more = at THEN at ELSE ReachedFrom(more)

\* the events, measurements and entries the function that ran last produced
DerivedObjects == {report[j] : j \in DOMAIN report}

\* a step in which one of the four functions runs on the records read
FunctionRuns ==
    pc' \in {"cmd_failures", "correlate_throughput_with_ap",
             "analyze_backhaul_quality", "analyze_coverage_gaps"}

\* the function leaves every record, and every object a record holds, with
\* the fields and values it had
RecordsUnchanged ==
    [][FunctionRuns =>
           \A r \in RecordsRead : \A a \in OwnedBy(r) : heap'[a] = heap[a]]_vars

\* no derived object is a record or reaches an object a record holds
NothingShared ==
    \A r \in RecordsRead : ReachedFrom(DerivedObjects) \cap OwnedBy(r) = {}

\* C21: after cmd_failures, correlate_throughput_with_ap,
\* analyze_backhaul_quality or analyze_coverage_gaps has run, every record
\* the readers produced has the same fields and values as before, and the
\* derived events and measurements are new values that share no mutable
\* field with a source record.
C21_RecordsLeftAloneAndUnshared == RecordsUnchanged /\ []NothingShared

====
